---- MODULE Spec2Model ----
(***************************************************************************)
(* Verification model of the batchglm optimisation core:                   *)
(*   - the training graph of base_glm/estimator_graph.py (gradients,       *)
(*     Newton-Raphson / IRLS updates, padding, trainers),                   *)
(*   - a training run over that graph (parameter store + convergence),      *)
(*   - the equality-constraint parser of data.py,                           *)
(*   - the parameter initialisation of glm_norm/estimator.py.               *)
(* Tensors are rank-2 arrays of integers (plus the value NaN) that carry    *)
(* their shape and dtype; a Python exception raised while a tensor is       *)
(* built is carried in the field exc and propagates through every op.       *)
(***************************************************************************)
EXTENDS Integers, Sequences, FiniteSets, TLC

(* ------------------------------ bounds --------------------------------- *)
\* number of features (columns of the parameter matrix)
NFeatures == 2
\* number of independent location / scale parameters per feature
NLocParams == 2
NScaleParams == 1
\* number of alternative data sets the jacobians/hessians are evaluated on
NSeeds == 3
\* number of optimisation steps of one training run
MaxSteps == 2
\* design matrix of the constraint parser: observations x design parameters
NObs == 2
NDesignParams == 3
\* number of constraint equations handed to the parser
MaxConstraints == 2
\* number of observations a Jacobian is accumulated over
NObservations == 3
\* largest number of design parameters / rows of a constraint matrix
MaxDesignParams == 3
\* largest observed value and largest loc / scale value of a weight
MaxX == 3
MaxLoc == 3
\* largest fitted mean / dispersion of a feature
MaxRaw == 2

VARIABLES
    termination_type,   \* configuration: termination type string
    train_loc,          \* configuration: train the location model
    train_scale,        \* configuration: train the scale model
    provide_optimizers, \* configuration: [nr |-> BOOLEAN, irls |-> BOOLEAN]
    dtype,              \* configuration: precision of the estimator
    converged,          \* model_vars.converged, one flag per feature
    idx_nonconverged,   \* indices of the features not converged at construction
    seed,               \* the data the jacobians / hessians / FIMs are evaluated on
    params,             \* model_vars.params: a_var rows followed by b_var rows
    graph,              \* the tensors of the training graph (or the exception raised)
    built,              \* convergence flags captured when the graph was built
    global_step,        \* number of optimisation steps applied
    last_op,            \* the operation applied last
    pc,                 \* position of the process
    constr,             \* a call of a constraint builder of data.py: inputs and outcome
    ipar,               \* an Estimator: a constructor call with its outcome, or the
                        \* fitted parameters with the property read from them
    jac,                \* a Jacobian construction or weight evaluation: inputs and outcome
    egc                 \* a method call on EstimatorGraphGLM: inputs and outcome

gvars == <<termination_type, train_loc, train_scale, provide_optimizers, dtype,
           converged, idx_nonconverged, seed, params, graph, built,
           global_step, last_op, pc>>

vars == <<gvars, constr, ipar, jac, egc>>

(* ------------------------------ tensors -------------------------------- *)
\* the floating point value NaN (never produced by integer arithmetic below)
NaN == -9999
IsNan(x) == x = NaN

\* a tensor value; its entries are stored as a tuple of row tuples.  fast is
\* the fast attribute of the matrix_solve_ls op the tensor derives from in
\* the graph ("none" when it derives from no solve)
Tensor(r, c, dt, v) ==
    [exc |-> "none", rows |-> r, cols |-> c, dtype |-> dt,
     val |-> [i \in 1..r |-> [j \in 1..c |-> v[i][j]] \o <<>>] \o <<>>,
     fast |-> "none"]
\* an exception raised while building a tensor
Raise(e) == [exc |-> e, rows |-> 0, cols |-> 0, dtype |-> "None", val |-> <<>>,
             fast |-> "none"]
\* Python None
NoneT == [exc |-> "none", rows |-> 0, cols |-> 0, dtype |-> "None", val |-> <<>>,
          fast |-> "none"]
\* a tensor computed from the tensor(s) with solve attribute(s) x
DerivedFrom(t, x) == [t EXCEPT !.fast = x]
\* the solve attribute of a tensor computed from several tensors
JoinFast(ts) ==
    IF \A k \in 1..Len(ts) : ts[k].fast = "none" THEN "none"
    ELSE IF \E k, j \in 1..Len(ts) :
               ts[k].fast # "none" /\ ts[j].fast # "none" /\ ts[k].fast # ts[j].fast
    THEN "mixed"
    ELSE ts[CHOOSE k \in 1..Len(ts) : ts[k].fast # "none"].fast
IsNone(t) == t.exc = "none" /\ t.dtype = "None"
IsTensor(t) == t.exc = "none" /\ t.dtype # "None"

FirstExc(ts) ==
    IF \E k \in 1..Len(ts) : ts[k].exc # "none"
    THEN ts[CHOOSE k \in 1..Len(ts) :
              ts[k].exc # "none" /\ \A j \in 1..(k - 1) : ts[j].exc = "none"].exc
    ELSE "none"

tf_zeros(r, c, dt) == Tensor(r, c, dt, [i \in 1..r |-> [j \in 1..c |-> 0]])
tf_zeros_like(t) == IF t.exc # "none" THEN t ELSE tf_zeros(t.rows, t.cols, t.dtype)
tf_transpose(t) ==
    IF t.exc # "none" THEN t
    ELSE DerivedFrom(Tensor(t.cols, t.rows, t.dtype,
                            [i \in 1..t.cols |-> [j \in 1..t.rows |-> t.val[j][i]]]),
                     t.fast)

RECURSIVE FlattenRows(_)
FlattenRows(ts) == IF ts = <<>> THEN <<>> ELSE ts[1].val \o FlattenRows(Tail(ts))

\* tf.concat(ts, axis=0): dtypes and widths have to agree
tf_concat0(ts) ==
    IF FirstExc(ts) # "none" THEN Raise(FirstExc(ts))
    ELSE IF \E k \in 1..Len(ts) : ts[k].dtype # ts[1].dtype THEN Raise("TypeError")
    ELSE IF \E k \in 1..Len(ts) : ts[k].cols # ts[1].cols THEN Raise("ValueError")
    ELSE LET v == FlattenRows(ts)
         IN DerivedFrom(Tensor(Len(v), ts[1].cols, ts[1].dtype, v), JoinFast(ts))

\* tf.concat(ts, axis=1)
tf_concat1(ts) ==
    IF FirstExc(ts) # "none" THEN Raise(FirstExc(ts))
    ELSE tf_transpose(tf_concat0([k \in 1..Len(ts) |-> tf_transpose(ts[k])]))

\* tf.gather(t, indices, axis=0)
tf_gather(t, indices) ==
    IF t.exc # "none" THEN t
    ELSE DerivedFrom(Tensor(Len(indices), t.cols, t.dtype,
                            [j \in 1..Len(indices) |-> t.val[indices[j]]]),
                     t.fast)

\* tf.expand_dims(t[:, i], axis=-1): column i as a [rows, 1] tensor
column(t, i) ==
    IF t.exc # "none" THEN t
    ELSE DerivedFrom(Tensor(t.rows, 1, t.dtype, [k \in 1..t.rows |-> <<t.val[k][i]>>]),
                     t.fast)

\* rows first..last of a tensor (a_var / b_var inside params)
rows_of(t, first, until) ==
    Tensor(until - first + 1, t.cols, t.dtype,
           [k \in 1..(until - first + 1) |-> t.val[first + k - 1]])

(* A left-hand side is a stack of square matrices, one per feature:        *)
(* [n, p, dtype, val] with val[f][r][c].                                   *)
gather_lhs(lhs, indices) ==
    [n |-> Len(indices), p |-> lhs.p, dtype |-> lhs.dtype,
     val |-> [j \in 1..Len(indices) |-> lhs.val[indices[j]]] \o <<>>]

Div(r, l) == IF IsNan(r) \/ IsNan(l) THEN NaN ELSE (IF r < 0 THEN -((-r) \div l) ELSE r \div l)

(* tf.squeeze(tf.matrix_solve_ls(lhs, tf.expand_dims(rhs, -1), fast), -1): *)
(* one solve per stacked matrix.  The left-hand sides of this model are    *)
(* diagonal with positive entries that divide the right-hand side, so the  *)
(* least-squares solution of lhs[f] x = rhs[f] is the exact quotient.      *)
matrix_solve_ls(lhs, rhs, fast) ==
    IF rhs.exc # "none" THEN rhs
    ELSE IF lhs.dtype # rhs.dtype THEN Raise("TypeError")
    ELSE DerivedFrom(Tensor(rhs.rows, rhs.cols, rhs.dtype,
                            [f \in 1..rhs.rows |->
                                [k \in 1..rhs.cols |->
                                    Div(rhs.val[f][k], lhs.val[f][k][k])]]),
                     IF fast THEN "True" ELSE "False")

(* ------------------------- evaluated data models ----------------------- *)
(* The jacobians, hessians and FIMs the graph is built on.  w = 0 is the   *)
(* full data model, w = 1 the batched data model.  Jacobian entries are    *)
(* even and never zero; the last data set holds a NaN for feature 1.       *)
JacEntry(sd, w, f, k) ==
    IF sd = NSeeds /\ f = 1 /\ k = 1 THEN NaN
    ELSE 2 * (((sd + w + f + k) % 3) + 1)
LhsDiag(sd, w, kind, f, k) == ((sd + w + kind + f + k) % 2) + 1

neg_jac_block(sd, w, dt, offset, width) ==
    Tensor(NFeatures, width, dt,
           [f \in 1..NFeatures |-> [k \in 1..width |-> JacEntry(sd, w, f, offset + k)]])

lhs_block(sd, w, kind, dt, offset, width) ==
    [n |-> NFeatures, p |-> width, dtype |-> dt,
     val |-> [f \in 1..NFeatures |->
                [r \in 1..width |->
                    [c \in 1..width |->
                        IF r = c THEN LhsDiag(sd, w, kind, f, offset + r) ELSE 0]
                    \o <<>>] \o <<>>] \o <<>>]

\* number of trained parameters and the offset of the first one
NTrained(tl, ts) == (IF tl THEN NLocParams ELSE 0) + (IF ts THEN NScaleParams ELSE 0)
TrainedOffset(tl) == IF tl THEN 0 ELSE NLocParams

DataModelGraph(sd, w, tl, ts, dt) ==
    [jac_train |->
        [neg_jac   |-> neg_jac_block(sd, w, dt, TrainedOffset(tl), NTrained(tl, ts)),
         neg_jac_a |-> neg_jac_block(sd, w, dt, 0, NLocParams),
         neg_jac_b |-> neg_jac_block(sd, w, dt, NLocParams, NScaleParams)],
     hessians_train |->
        [neg_hessian |-> lhs_block(sd, w, 0, dt, TrainedOffset(tl), NTrained(tl, ts))],
     fim_train |->
        [fim_a |-> lhs_block(sd, w, 1, dt, 0, NLocParams),
         fim_b |-> lhs_block(sd, w, 1, dt, NLocParams, NScaleParams)]]

\* the estimator graph object the mixin classes read their inputs from
Self(conv, idx, sd, tl, ts, dt, prm) ==
    [model_vars |->
        [params |-> prm,
         a_var |-> rows_of(prm, 1, NLocParams),
         b_var |-> rows_of(prm, NLocParams + 1, NLocParams + NScaleParams),
         converged |-> conv,
         n_features |-> NFeatures],
     full_data_model |-> DataModelGraph(sd, 0, tl, ts, dt),
     batched_data_model |-> DataModelGraph(sd, 1, tl, ts, dt),
     idx_nonconverged |-> idx]

(* ---------------------------- GradientGraphGLM ------------------------- *)
gradients_full_byfeature(self) ==
    LET gradients_full_all == tf_transpose(self.full_data_model.jac_train.neg_jac)
    IN tf_concat1([i \in 1..self.model_vars.n_features |->
            IF ~self.model_vars.converged[i]
            THEN column(gradients_full_all, i)
            \* tf.zeros([param_grad_vec.shape[1], 1], dtype=dtype): neither
            \* param_grad_vec nor dtype is a name bound in this method
            ELSE Raise("NameError")])

gradients_batched_byfeature(self) ==
    LET gradients_batch_all == tf_transpose(self.batched_data_model.jac_train.neg_jac)
    IN tf_concat1([i \in 1..self.model_vars.n_features |->
            IF ~self.model_vars.converged[i]
            THEN column(gradients_batch_all, i)
            ELSE Raise("NameError")])

\* faulty variant: the global gradient masks converged features as the by-feature one does
gradients_full_global_masked(self) == gradients_full_byfeature(self)

gradients_full_global(self) == tf_transpose(self.full_data_model.jac_train.neg_jac)

gradients_batched_global(self) == tf_transpose(self.batched_data_model.jac_train.neg_jac)

\* the padding of lines 120-143, for one raw gradient
pad_gradients(self, raw, tl, ts) ==
    IF tl
    THEN IF ts THEN raw
         ELSE tf_concat0(<<raw, tf_zeros_like(self.model_vars.b_var)>>)
    ELSE tf_concat0(<<tf_zeros_like(self.model_vars.a_var), raw>>)

\* lines 152-153: the attributes set, or the exception that ended __init__
GradientResult(e, gf, gb) ==
    IF e # "none"
    THEN [exc |-> e, gradients_full |-> NoneT, gradients_batch |-> NoneT]
    ELSE [exc |-> "none", gradients_full |-> gf, gradients_batch |-> gb]

GradientPadded(full_raw, batch_raw, gb, gf) ==
    GradientResult(FirstExc(<<full_raw, batch_raw, gb, gf>>), gf, gb)

GradientRaw(self, tl, ts, full_raw, batch_raw) ==
    GradientPadded(full_raw, batch_raw,
                   pad_gradients(self, batch_raw, tl, ts),
                   pad_gradients(self, full_raw, tl, ts))

GradientGraphGLM_init(self, tt, tl, ts) ==
    IF tl \/ ts
    THEN IF tt = "by_feature"
         THEN GradientRaw(self, tl, ts, gradients_full_byfeature(self),
                          gradients_batched_byfeature(self))
         ELSE IF tt = "global"
         THEN GradientRaw(self, tl, ts, gradients_full_global(self),
                          gradients_batched_global(self))
         ELSE GradientResult("ValueError", NoneT, NoneT)
    ELSE GradientResult("none", tf_zeros_like(self.model_vars.params),
                        tf_zeros_like(self.model_vars.params))

(* ----------------------------- NewtonGraphGLM -------------------------- *)
\* pkg_constants.CHOLESKY_LSTSQS
CHOLESKY_LSTSQS == TRUE

\* np.where(idx == i)[0]: the positions of i in idx, ascending
RECURSIVE np_where_from(_, _, _)
np_where_from(idx, i, j) ==
    IF j > Len(idx) THEN <<>>
    ELSE (IF idx[j] = i THEN <<j>> ELSE <<>>) \o np_where_from(idx, i, j + 1)
\* faulty variant: the first solved row is taken for every feature
np_where_first(idx, i) == <<1>>

np_where(idx, i) == np_where_from(idx, i, 1)

\* faulty variant: the solve of all features is returned, nothing is masked
newton_type_update_full_byfeature_nomask(self, lhs, rhs, psd) ==
    tf_transpose(matrix_solve_ls(lhs, rhs, psd /\ CHOLESKY_LSTSQS))

newton_type_update_full_byfeature(self, lhs, rhs, psd) ==
    LET delta_t_bygene_nonconverged ==
            matrix_solve_ls(gather_lhs(lhs, self.idx_nonconverged),
                            tf_gather(rhs, self.idx_nonconverged),
                            psd /\ CHOLESKY_LSTSQS)
        delta_t_bygene_full ==
            tf_concat0([i \in 1..self.model_vars.n_features |->
                IF ~self.model_vars.converged[i]
                THEN tf_gather(delta_t_bygene_nonconverged,
                               np_where(self.idx_nonconverged, i))
                ELSE tf_zeros(1, rhs.cols, "float32")])
    IN tf_transpose(delta_t_bygene_full)

newton_type_update_batched_byfeature(self, lhs, rhs, psd) ==
    LET delta_batched_t_bygene_nonconverged ==
            matrix_solve_ls(gather_lhs(lhs, self.idx_nonconverged),
                            tf_gather(rhs, self.idx_nonconverged),
                            psd /\ CHOLESKY_LSTSQS)
        delta_batched_t_bygene_full ==
            tf_concat0([i \in 1..self.model_vars.n_features |->
                IF ~self.model_vars.converged[i]
                THEN tf_gather(delta_batched_t_bygene_nonconverged,
                               np_where(self.idx_nonconverged, i))
                ELSE tf_zeros(1, rhs.cols, "float32")])
    IN tf_transpose(delta_batched_t_bygene_full)

\* faulty variant: the Cholesky-based solve is used for every left-hand side
newton_type_update_full_global_cholesky(self, lhs, rhs, psd) ==
    tf_transpose(matrix_solve_ls(lhs, rhs, CHOLESKY_LSTSQS))

newton_type_update_full_global(self, lhs, rhs, psd) ==
    tf_transpose(matrix_solve_ls(lhs, rhs, psd /\ CHOLESKY_LSTSQS))

newton_type_update_batched_global(self, lhs, rhs, psd) ==
    tf_transpose(matrix_solve_ls(lhs, rhs, psd /\ CHOLESKY_LSTSQS))

\* returns <<update_full, update_batched>>
build_updates(self, full_lhs, batched_rhs, full_rhs, batched_lhs, tt, psd) ==
    IF tt = "by_feature"
    THEN <<newton_type_update_full_byfeature(self, full_lhs, full_rhs, psd),
           newton_type_update_batched_byfeature(self, batched_lhs, batched_rhs, psd)>>
    ELSE IF tt = "global"
    THEN <<newton_type_update_full_global(self, full_lhs, full_rhs, psd),
           newton_type_update_batched_global(self, batched_lhs, batched_rhs, psd)>>
    ELSE <<Raise("ValueError"), Raise("ValueError")>>

\* faulty variant: the raw updates are returned without padding
pad_updates_nopad(self, update_full_raw, update_batched_raw, train_mu, train_r) ==
    <<update_full_raw, update_batched_raw>>

\* returns <<newton_type_update_full, newton_type_update_batched>>
pad_updates(self, update_full_raw, update_batched_raw, train_mu, train_r) ==
    IF train_mu
    THEN IF train_r
         THEN <<update_full_raw, update_batched_raw>>
         ELSE <<tf_concat0(<<update_full_raw, tf_zeros_like(self.model_vars.b_var)>>),
                tf_concat0(<<update_batched_raw, tf_zeros_like(self.model_vars.b_var)>>)>>
    ELSE IF train_r
    THEN <<tf_concat0(<<tf_zeros_like(self.model_vars.a_var), update_full_raw>>),
           tf_concat0(<<tf_zeros_like(self.model_vars.a_var), update_batched_raw>>)>>
    ELSE <<Raise("ValueError"), Raise("ValueError")>>

\* lines 303-306: the attributes set, or the exception that ended __init__
NewtonResult(e, nf, nb, irf, irb) ==
    [exc |-> e,
     nr_update_full |-> IF e = "none" THEN nf ELSE NoneT,
     nr_update_batched |-> IF e = "none" THEN nb ELSE NoneT,
     irls_update_full |-> IF e = "none" THEN irf ELSE NoneT,
     irls_update_batched |-> IF e = "none" THEN irb ELSE NoneT]

\* exceptions in program order: the NR block runs before the IRLS block
NewtonPadded(nr_raw, nr, irls_a, irls_b, irls_raw, irls) ==
    NewtonResult(FirstExc(<<nr_raw[1], nr_raw[2], nr[1], nr[2],
                            irls_a[1], irls_a[2], irls_b[1], irls_b[2],
                            irls_raw[1], irls_raw[2], irls[1], irls[2]>>),
                 nr[1], nr[2], irls[1], irls[2])

\* lines 233-238 and 288-293
NewtonConcat(self, po, train_mu, train_r, nr_raw, irls_a, irls_b, irls_raw) ==
    NewtonPadded(nr_raw,
                 IF po.nr
                 THEN pad_updates(self, nr_raw[1], nr_raw[2], train_mu, train_r)
                 ELSE <<NoneT, NoneT>>,
                 irls_a, irls_b, irls_raw,
                 IF po.irls
                 THEN pad_updates(self, irls_raw[1], irls_raw[2], train_mu, train_r)
                 ELSE <<NoneT, NoneT>>)

\* faulty variant: the scale block is put before the location block
NewtonRaw_scale_first(self, po, train_mu, train_r, nr_raw, irls_a, irls_b) ==
    NewtonConcat(self, po, train_mu, train_r, nr_raw, irls_a, irls_b,
                 IF ~po.irls THEN <<NoneT, NoneT>>
                 ELSE IF train_mu /\ train_r
                 THEN <<tf_concat0(<<irls_b[1], irls_a[1]>>),
                        tf_concat0(<<irls_b[2], irls_a[2]>>)>>
                 ELSE IF train_mu THEN irls_a ELSE irls_b)

\* lines 275-286
NewtonRaw(self, po, train_mu, train_r, nr_raw, irls_a, irls_b) ==
    NewtonConcat(self, po, train_mu, train_r, nr_raw, irls_a, irls_b,
                 IF ~po.irls THEN <<NoneT, NoneT>>
                 ELSE IF train_mu /\ train_r
                 THEN <<tf_concat0(<<irls_a[1], irls_b[1]>>),
                        tf_concat0(<<irls_a[2], irls_b[2]>>)>>
                 ELSE IF train_mu THEN irls_a ELSE irls_b)

NewtonGraphGLM_init(self, tt, po, train_mu, train_r) ==
    IF train_mu \/ train_r
    THEN NewtonRaw(self, po, train_mu, train_r,
            IF po.nr
            THEN build_updates(self,
                    self.full_data_model.hessians_train.neg_hessian,
                    self.batched_data_model.jac_train.neg_jac,
                    self.full_data_model.jac_train.neg_jac,
                    self.batched_data_model.hessians_train.neg_hessian,
                    tt, FALSE)
            ELSE <<NoneT, NoneT>>,
            IF po.irls /\ train_mu
            THEN build_updates(self,
                    self.full_data_model.fim_train.fim_a,
                    self.batched_data_model.jac_train.neg_jac_a,
                    self.full_data_model.jac_train.neg_jac_a,
                    self.batched_data_model.fim_train.fim_a,
                    tt, TRUE)
            ELSE <<NoneT, NoneT>>,
            IF po.irls /\ train_r
            THEN build_updates(self,
                    self.full_data_model.fim_train.fim_b,
                    self.batched_data_model.jac_train.neg_jac_b,
                    self.full_data_model.jac_train.neg_jac_b,
                    self.batched_data_model.fim_train.fim_b,
                    tt, TRUE)
            ELSE <<NoneT, NoneT>>)
    ELSE NewtonResult("none", NoneT, NoneT, NoneT, NoneT)

(* ----------------------------- TrainerGraphGLM ------------------------- *)
\* faulty variant: the step is applied as it is, NaN entries included
apply_gradients_unfiltered(grad) == grad

\* lambda grad: tf.where(tf.is_nan(grad), tf.zeros_like(grad), grad)
apply_gradients(grad) ==
    IF ~IsTensor(grad) THEN grad
    ELSE Tensor(grad.rows, grad.cols, grad.dtype,
                [k \in 1..grad.rows |->
                    [f \in 1..grad.cols |->
                        IF IsNan(grad.val[k][f]) THEN 0 ELSE grad.val[k][f]]])

NoTrainer == [created |-> FALSE, gradients |-> NoneT,
              newton_delta |-> NoneT, irls_delta |-> NoneT]

(* train_utils.MultiTrainer: the steps it will apply to `variables`.  The  *)
(* function handed in as apply_gradients (at both call sites the lambda    *)
(* above) is applied to the gradient and to every Newton-type delta        *)
(* before the step is applied.                                             *)
MultiTrainer(gradients, newton_delta, irls_delta, po) ==
    [created |-> TRUE,
     gradients |-> apply_gradients(gradients),
     newton_delta |-> IF po.nr THEN apply_gradients(newton_delta) ELSE NoneT,
     irls_delta |-> IF po.irls THEN apply_gradients(irls_delta) ELSE NoneT]

\* faulty variant: the trainers are created whether or not anything is trained
TrainerGraphGLM_init_unconditional(g, po, tl, ts) ==
    <<MultiTrainer(g.gradients_batch, g.nr_update_batched, g.irls_update_batched, po),
      MultiTrainer(g.gradients_full, g.nr_update_full, g.irls_update_full, po)>>

\* returns <<trainer_batch, trainer_full>>
TrainerGraphGLM_init(g, po, tl, ts) ==
    <<IF tl \/ ts
      THEN MultiTrainer(g.gradients_batch, g.nr_update_batched,
                        g.irls_update_batched, po)
      ELSE NoTrainer,
      IF tl \/ ts
      THEN MultiTrainer(g.gradients_full, g.nr_update_full,
                        g.irls_update_full, po)
      ELSE NoTrainer>>

(* ---------------------------- EstimatorGraphGLM ------------------------ *)
Graph(e, gf, gb, nf, nb, irf, irb, tf, tb) ==
    [exc |-> e, gradients_full |-> gf, gradients_batch |-> gb,
     nr_update_full |-> nf, nr_update_batched |-> nb,
     irls_update_full |-> irf, irls_update_batched |-> irb,
     trainer_full |-> tf, trainer_batch |-> tb]

EmptyGraph == Graph("none", NoneT, NoneT, NoneT, NoneT, NoneT, NoneT, NoTrainer, NoTrainer)

RunTrainers(gn, t) == [gn EXCEPT !.trainer_batch = t[1], !.trainer_full = t[2]]

RunWithGraph(po, tl, ts, gn) == RunTrainers(gn, TrainerGraphGLM_init(gn, po, tl, ts))

RunAfterNewton(po, tl, ts, g, n) ==
    IF n.exc # "none"
    THEN [EmptyGraph EXCEPT !.exc = n.exc,
                            !.gradients_full = g.gradients_full,
                            !.gradients_batch = g.gradients_batch]
    ELSE RunWithGraph(po, tl, ts,
            Graph("none", g.gradients_full, g.gradients_batch,
                  n.nr_update_full, n.nr_update_batched,
                  n.irls_update_full, n.irls_update_batched, NoTrainer, NoTrainer))

RunAfterGradient(self, tt, po, tl, ts, g) ==
    IF g.exc # "none" THEN [EmptyGraph EXCEPT !.exc = g.exc]
    ELSE RunAfterNewton(po, tl, ts, g, NewtonGraphGLM_init(self, tt, po, tl, ts))

run_trainer_init(self, tt, po, tl, ts) ==
    RunAfterGradient(self, tt, po, tl, ts, GradientGraphGLM_init(self, tt, tl, ts))

(* ------------------- construction of the training graph ---------------- *)
\* np.where(converged == False)[0], ascending
RECURSIVE IdxFrom(_, _)
IdxFrom(conv, i) ==
    IF i > NFeatures THEN <<>>
    ELSE (IF conv[i] THEN <<>> ELSE <<i>>) \o IdxFrom(conv, i + 1)
IdxNonconverged(conv) == IdxFrom(conv, 1)

\* initial coefficients: small distinct integers
InitParams(dt) ==
    Tensor(NLocParams + NScaleParams, NFeatures, dt,
           [k \in 1..(NLocParams + NScaleParams) |-> [f \in 1..NFeatures |-> k + f]])

TerminationTypes == {"by_feature", "global", "by_gene"}
DTypes == {"float32", "float64"}

CurrentSelf == Self(converged, idx_nonconverged, seed, train_loc, train_scale, dtype, params)

InitGraph ==
    /\ termination_type \in TerminationTypes
    /\ train_loc \in BOOLEAN
    /\ train_scale \in BOOLEAN
    /\ provide_optimizers \in [nr : BOOLEAN, irls : BOOLEAN]
    /\ dtype \in DTypes
    /\ converged \in [1..NFeatures -> BOOLEAN]
    /\ idx_nonconverged = IdxNonconverged(converged)
    /\ seed \in 1..NSeeds
    /\ params = InitParams(dtype)
    /\ graph = EmptyGraph
    /\ built = [converged |-> converged, idx_nonconverged |-> idx_nonconverged]
    /\ global_step = 0
    /\ last_op = "none"
    /\ pc = "start"
    /\ constr = [pc |-> "idle"]
    /\ ipar = [pc |-> "idle"]
    /\ jac = [pc |-> "idle"]
    /\ egc = [pc |-> "idle"]

Done(op, g) ==
    /\ graph' = g
    /\ last_op' = op
    /\ pc' = IF graph'.exc = "none" THEN "built" ELSE "raised"
    /\ UNCHANGED <<termination_type, train_loc, train_scale, provide_optimizers, dtype,
                   converged, idx_nonconverged, seed, params, built, global_step,
                   constr, ipar, jac, egc>>

\* GradientGraphGLM.__init__ on its own
BuildGradientGraph ==
    /\ pc = "start"
    /\ \E g \in {GradientGraphGLM_init(CurrentSelf, termination_type, train_loc, train_scale)} :
          Done("GradientGraphGLM", [EmptyGraph EXCEPT !.exc = g.exc,
                                        !.gradients_full = g.gradients_full,
                                        !.gradients_batch = g.gradients_batch])

\* NewtonGraphGLM.__init__ on its own
BuildNewtonGraph ==
    /\ pc = "start"
    /\ \E n \in {NewtonGraphGLM_init(CurrentSelf, termination_type, provide_optimizers,
                                       train_loc, train_scale)} :
          Done("NewtonGraphGLM", [EmptyGraph EXCEPT !.exc = n.exc,
                                      !.nr_update_full = n.nr_update_full,
                                      !.nr_update_batched = n.nr_update_batched,
                                      !.irls_update_full = n.irls_update_full,
                                      !.irls_update_batched = n.irls_update_batched])

\* EstimatorGraphGLM._run_trainer_init
RunTrainerInit ==
    /\ pc = "start"
    /\ Done("run_trainer_init",
            run_trainer_init(CurrentSelf, termination_type, provide_optimizers,
                             train_loc, train_scale))

NextGraph == BuildGradientGraph \/ BuildNewtonGraph \/ RunTrainerInit

SpecGraph == InitGraph /\ [][NextGraph]_vars

(* ======================= claims on the training graph ================== *)
NParams == NLocParams + NScaleParams
ZeroColumn(t, i) == \A k \in 1..t.rows : t.val[k][i] = 0
ZeroRow(t, k) == \A f \in 1..t.cols : t.val[k][f] = 0
NewtonUpdates(g) == {g.nr_update_full, g.nr_update_batched,
                     g.irls_update_full, g.irls_update_batched}
Gradients(g) == {g.gradients_full, g.gradients_batch}
IsTrained(r) == IF r <= NLocParams THEN train_loc ELSE train_scale

\* C1: in by_feature mode every Newton-Raphson and IRLS update that is built
\* (full and batched) has one column per feature, and the column of every
\* feature whose converged flag is True is all zero.
C1_ConvergedUpdateColumnsZero ==
    (pc = "built" /\ termination_type = "by_feature") =>
        \A t \in NewtonUpdates(graph) :
            IsTensor(t) =>
                /\ t.cols = NFeatures
                /\ \A i \in 1..NFeatures : converged[i] => ZeroColumn(t, i)

\* a mixed convergence vector for which both the NR and the IRLS update were built
C1_Witness ==
    /\ pc = "built" /\ last_op = "NewtonGraphGLM" /\ termination_type = "by_feature"
    /\ IsTensor(graph.nr_update_full) /\ IsTensor(graph.irls_update_batched)
    /\ \E i, j \in 1..NFeatures :
        /\ converged[i] /\ ~converged[j]
        /\ ZeroColumn(graph.nr_update_full, i) /\ ~ZeroColumn(graph.nr_update_full, j)
        /\ ZeroColumn(graph.irls_update_batched, i)
        /\ ~ZeroColumn(graph.irls_update_batched, j)

\* C3: in by_feature mode the gradient graph is built for every convergence
\* vector; column i of the gradient is zero when feature i is converged and
\* is column i of the transposed negative Jacobian otherwise.
C3_GradientsMaskedForEveryVector ==
    (pc # "start" /\ last_op = "GradientGraphGLM" /\ termination_type = "by_feature"
        /\ (train_loc \/ train_scale)) =>
        /\ graph.exc = "none"
        /\ IsTensor(graph.gradients_full) /\ IsTensor(graph.gradients_batch)
        /\ \A i \in 1..NFeatures : \A r \in 1..NParams :
            IsTrained(r) =>
                /\ graph.gradients_full.val[r][i] =
                     IF converged[i] THEN 0 ELSE JacEntry(seed, 0, i, r)
                /\ graph.gradients_batch.val[r][i] =
                     IF converged[i] THEN 0 ELSE JacEntry(seed, 1, i, r)

\* C4: every gradient and every provided NR / IRLS update has the shape of
\* the full stacked parameter matrix; the rows of the sub-model that is not
\* trained are all zero.
C4_FullShape(t) ==
    /\ IsTensor(t)
    /\ t.rows = NParams /\ t.cols = NFeatures
    /\ \A r \in 1..NParams : ~IsTrained(r) => ZeroRow(t, r)

C4_UpdatesHaveFullParamShape ==
    (pc = "built" /\ (train_loc \/ train_scale)) =>
        /\ last_op \in {"GradientGraphGLM", "run_trainer_init"} =>
              \A t \in Gradients(graph) : C4_FullShape(t)
        /\ (last_op \in {"NewtonGraphGLM", "run_trainer_init"} /\ provide_optimizers.nr) =>
              (C4_FullShape(graph.nr_update_full) /\ C4_FullShape(graph.nr_update_batched))
        /\ (last_op \in {"NewtonGraphGLM", "run_trainer_init"} /\ provide_optimizers.irls) =>
              (C4_FullShape(graph.irls_update_full) /\ C4_FullShape(graph.irls_update_batched))

\* a graph that trains one sub-model only, with every optimizer provided
C4_Witness ==
    /\ pc = "built" /\ last_op = "run_trainer_init"
    /\ train_loc # train_scale
    /\ provide_optimizers.nr /\ provide_optimizers.irls
    /\ C4_FullShape(graph.nr_update_full) /\ C4_FullShape(graph.irls_update_batched)
    /\ C4_FullShape(graph.gradients_full)
    /\ \E r \in 1..NParams : ~ZeroRow(graph.nr_update_full, r)

\* C5: in global mode the graph is built for every convergence vector and
\* nothing is masked: gradients are the transposed negative Jacobian and the
\* NR / IRLS updates the per-feature solves, whatever the converged flags.
C5_GlobalUnmasked ==
    (pc # "start" /\ termination_type = "global" /\ (train_loc \/ train_scale)) =>
        /\ graph.exc = "none"
        /\ \A f \in 1..NFeatures : \A r \in 1..NParams :
            IsTrained(r) =>
                /\ last_op \in {"GradientGraphGLM", "run_trainer_init"} =>
                    /\ graph.gradients_full.val[r][f] = JacEntry(seed, 0, f, r)
                    /\ graph.gradients_batch.val[r][f] = JacEntry(seed, 1, f, r)
                /\ (last_op \in {"NewtonGraphGLM", "run_trainer_init"}
                        /\ provide_optimizers.nr) =>
                    /\ graph.nr_update_full.val[r][f] =
                         Div(JacEntry(seed, 0, f, r), LhsDiag(seed, 0, 0, f, r))
                    /\ graph.nr_update_batched.val[r][f] =
                         Div(JacEntry(seed, 1, f, r), LhsDiag(seed, 1, 0, f, r))
                /\ (last_op \in {"NewtonGraphGLM", "run_trainer_init"}
                        /\ provide_optimizers.irls) =>
                    /\ graph.irls_update_full.val[r][f] =
                         Div(JacEntry(seed, 0, f, r), LhsDiag(seed, 0, 1, f, r))
                    /\ graph.irls_update_batched.val[r][f] =
                         Div(JacEntry(seed, 1, f, r), LhsDiag(seed, 1, 1, f, r))

\* a global graph built while a feature is flagged converged
C5_Witness ==
    /\ pc = "built" /\ last_op = "run_trainer_init" /\ termination_type = "global"
    /\ train_loc /\ train_scale /\ provide_optimizers.nr /\ provide_optimizers.irls
    /\ \E i \in 1..NFeatures :
        /\ converged[i]
        /\ ~ZeroColumn(graph.gradients_full, i)
        /\ ~ZeroColumn(graph.nr_update_full, i)
        /\ ~ZeroColumn(graph.irls_update_full, i)

\* C6: building the training graph with an unrecognised termination type
\* raises a ValueError, whatever train_loc, train_scale and the optimizers.
C6_UnknownTerminationTypeRaises ==
    (pc # "start" /\ last_op = "run_trainer_init"
        /\ termination_type \notin {"by_feature", "global"}) =>
        graph.exc = "ValueError"

(* ============================ a training run =========================== *)
(* The estimator graph is constructed once (EstimatorGraphGLM.__init__ and  *)
(* _run_trainer_init) while no feature is converged; every optimisation    *)
(* step then evaluates the tensors of that graph on the current data and   *)
(* applies one of the trainers' steps to model_vars.params.                *)
LearningRate == 1

Sub(x, y) == IF IsNan(x) \/ IsNan(y) THEN NaN ELSE x - y

\* the train op of MultiTrainer: variables <- variables - learning_rate * step
train_op(variables, step) ==
    Tensor(variables.rows, variables.cols, variables.dtype,
           [k \in 1..variables.rows |->
               [f \in 1..variables.cols |->
                   Sub(variables.val[k][f],
                       IF IsNan(step.val[k][f]) THEN NaN
                       ELSE LearningRate * step.val[k][f])]])

TrainOps == {"gd_full", "gd_batch", "nr_full", "nr_batch", "irls_full", "irls_batch"}

\* the step a trainer applies for a train op
TrainerStep(g, op) ==
    CASE op = "gd_full" -> g.trainer_full.gradients
      [] op = "gd_batch" -> g.trainer_batch.gradients
      [] op = "nr_full" -> g.trainer_full.newton_delta
      [] op = "nr_batch" -> g.trainer_batch.newton_delta
      [] op = "irls_full" -> g.trainer_full.irls_delta
      [] op = "irls_batch" -> g.trainer_batch.irls_delta

\* the tensor of the graph that the trainer was given for a train op
GraphStep(g, op) ==
    CASE op = "gd_full" -> g.gradients_full
      [] op = "gd_batch" -> g.gradients_batch
      [] op = "nr_full" -> g.nr_update_full
      [] op = "nr_batch" -> g.nr_update_batched
      [] op = "irls_full" -> g.irls_update_full
      [] op = "irls_batch" -> g.irls_update_batched

\* the graph as it was built, evaluated on the current data and parameters
BuiltSelf == Self(built.converged, built.idx_nonconverged, seed,
                  train_loc, train_scale, dtype, params)

InitRun ==
    /\ termination_type \in {"by_feature", "global"}
    /\ train_loc \in BOOLEAN
    /\ train_scale \in BOOLEAN
    /\ train_loc \/ train_scale
    /\ provide_optimizers \in [nr : BOOLEAN, irls : BOOLEAN]
    /\ dtype \in DTypes
    /\ converged = [i \in 1..NFeatures |-> FALSE]
    /\ idx_nonconverged = IdxNonconverged(converged)
    /\ seed \in 1..NSeeds
    /\ params = InitParams(dtype)
    /\ built = [converged |-> converged, idx_nonconverged |-> idx_nonconverged]
    /\ graph = run_trainer_init(BuiltSelf, termination_type, provide_optimizers,
                                train_loc, train_scale)
    /\ global_step = 0
    /\ last_op = "run_trainer_init"
    /\ pc = "built"
    /\ constr = [pc |-> "idle"]
    /\ ipar = [pc |-> "idle"]
    /\ jac = [pc |-> "idle"]
    /\ egc = [pc |-> "idle"]

\* one optimisation step: session.run of a train op of trainer_full / trainer_batch
TrainStep ==
    /\ pc = "built"
    /\ global_step < MaxSteps
    /\ \E i \in 1..NFeatures : ~converged[i]
    /\ \E op \in TrainOps :
       \E g \in {run_trainer_init(BuiltSelf, termination_type, provide_optimizers,
                                  train_loc, train_scale)} :
          /\ g.exc = "none"
          /\ IsTensor(TrainerStep(g, op))
          /\ params' = train_op(params, TrainerStep(g, op))
          /\ graph' = g
          /\ last_op' = op
    /\ global_step' = global_step + 1
    /\ seed' \in 1..NSeeds
    /\ UNCHANGED <<termination_type, train_loc, train_scale, provide_optimizers, dtype,
                   converged, idx_nonconverged, built, pc, constr, ipar, jac, egc>>

\* the convergence controller flags a feature whose criterion is met
FlagConverged ==
    /\ pc = "built"
    /\ termination_type = "by_feature"
    /\ global_step >= 1
    /\ \E i \in 1..NFeatures :
        /\ ~converged[i]
        /\ converged' = [converged EXCEPT ![i] = TRUE]
    /\ UNCHANGED <<termination_type, train_loc, train_scale, provide_optimizers, dtype,
                   idx_nonconverged, seed, params, graph, built, global_step, last_op, pc,
                   constr, ipar, jac, egc>>

NextRun == TrainStep \/ FlagConverged

SpecRun == InitRun /\ [][NextRun]_vars

\* the entry of an IRLS block solved from the FIM and the negative Jacobian
\* of one sub-model alone (w = 0 full data, w = 1 batched data)
IrlsBlockEntry(w, k, f) == Div(JacEntry(seed, w, f, k), LhsDiag(seed, w, 1, f, k))

IrlsExpected(w, k, f) ==
    IF termination_type = "by_feature" /\ converged[f] THEN 0
    ELSE IF IsTrained(k) THEN IrlsBlockEntry(w, k, f)
    ELSE 0

\* C14: the IRLS update holds the location rows first and the scale rows
\* second; the location rows are the solve of (fim_a, neg_jac_a) alone and
\* the scale rows the solve of (fim_b, neg_jac_b) alone.
C14_IrlsBlocksSeparate ==
    (pc = "built" /\ IsTensor(graph.irls_update_full)) =>
        /\ IsTensor(graph.irls_update_batched)
        /\ graph.irls_update_full.rows = NParams
        /\ graph.irls_update_batched.rows = NParams
        /\ \A k \in 1..NParams : \A f \in 1..NFeatures :
              /\ graph.irls_update_full.val[k][f] = IrlsExpected(0, k, f)
              /\ graph.irls_update_batched.val[k][f] = IrlsExpected(1, k, f)

\* both sub-models trained: the two blocks were solved and concatenated
C14_Witness ==
    /\ pc = "built" /\ last_op = "NewtonGraphGLM"
    /\ train_loc /\ train_scale /\ provide_optimizers.irls
    /\ IsTensor(graph.irls_update_full)
    /\ \E f \in 1..NFeatures :
          /\ ~IsNan(graph.irls_update_full.val[1][f])
          /\ graph.irls_update_full.val[1][f] # 0
          /\ graph.irls_update_full.val[NParams][f] # 0
          /\ graph.irls_update_full.val[1][f] # graph.irls_update_full.val[NParams][f]

\* C15: the Cholesky-based solve (fast = True) is used for the FIM blocks of
\* IRLS and the general least-squares solve (fast = False) for the Hessian
\* of Newton-Raphson, in global and by_feature mode, on full and batched data
\* (an update of converged features only derives from no solve at all).
C15_SomeSolve == termination_type = "global" \/ \E i \in 1..NFeatures : ~converged[i]

C21_OwnSolution(w, kind, k, f) == Div(JacEntry(seed, w, f, k), LhsDiag(seed, w, kind, f, k))

C21_OwnColumns(t, w, kind) ==
    IsTensor(t) =>
        /\ t.cols = NFeatures
        /\ \A f \in 1..NFeatures : \A k \in 1..NParams :
              (~converged[f] /\ IsTrained(k)) => t.val[k][f] = C21_OwnSolution(w, kind, k, f)

\* C21: in by_feature mode, with idx_nonconverged listing exactly the
\* features that are not converged, every update has one column per feature
\* and the column of every non-converged feature is the solution of that
\* feature's own system.
C21_ScatterKeepsFeatures ==
    (pc = "built" /\ termination_type = "by_feature"
        /\ idx_nonconverged = IdxNonconverged(converged)) =>
        /\ C21_OwnColumns(graph.nr_update_full, 0, 0)
        /\ C21_OwnColumns(graph.nr_update_batched, 1, 0)
        /\ C21_OwnColumns(graph.irls_update_full, 0, 1)
        /\ C21_OwnColumns(graph.irls_update_batched, 1, 1)

\* the first feature converged: the second one's delta is the first solved row
C21_Witness ==
    /\ pc = "built" /\ termination_type = "by_feature" /\ last_op = "NewtonGraphGLM"
    /\ converged[1] /\ ~converged[NFeatures]
    /\ train_loc /\ IsTensor(graph.nr_update_full) /\ IsTensor(graph.irls_update_batched)
    /\ graph.nr_update_full.val[1][NFeatures] = C21_OwnSolution(0, 0, 1, NFeatures)
    /\ graph.nr_update_full.val[1][NFeatures] # 0
    /\ ZeroColumn(graph.nr_update_full, 1)

C22_Assembled(t) == IsTensor(t) /\ t.dtype = dtype /\ t.rows = NParams /\ t.cols = NFeatures

\* C22: in by_feature mode the zero rows of converged features have the
\* dtype and the width of the solved rows, so that for every convergence
\* vector mixing converged and non-converged features, in float32 and in
\* float64, every provided update is assembled.
C22_ZeroRowsMatchSolvedRows ==
    (pc # "start" /\ last_op = "NewtonGraphGLM" /\ termination_type = "by_feature"
        /\ (train_loc \/ train_scale)
        /\ (\E i, j \in 1..NFeatures : converged[i] /\ ~converged[j])) =>
        /\ graph.exc = "none"
        /\ provide_optimizers.nr =>
              (C22_Assembled(graph.nr_update_full) /\ C22_Assembled(graph.nr_update_batched))
        /\ provide_optimizers.irls =>
              (C22_Assembled(graph.irls_update_full)
                 /\ C22_Assembled(graph.irls_update_batched))

C26_ZeroLikeParams(t) ==
    /\ IsTensor(t)
    /\ t.rows = params.rows /\ t.cols = params.cols /\ t.dtype = params.dtype
    /\ \A k \in 1..t.rows : ZeroRow(t, k)

\* C26: with train_loc and train_scale both False the graph is built without
\* error; both gradients are all zero with the shape of the parameter
\* matrix, the four NR / IRLS updates are None and no trainer is created,
\* whatever provide_optimizers is.
C26_NothingTrained ==
    (pc # "start" /\ ~train_loc /\ ~train_scale) =>
        /\ pc = "built"
        /\ last_op \in {"GradientGraphGLM", "run_trainer_init"} =>
              \A t \in Gradients(graph) : C26_ZeroLikeParams(t)
        /\ last_op \in {"NewtonGraphGLM", "run_trainer_init"} =>
              \A t \in NewtonUpdates(graph) : IsNone(t)
        /\ last_op = "run_trainer_init" =>
              (~graph.trainer_full.created /\ ~graph.trainer_batch.created)

\* every optimizer asked for, nothing to train
C26_Witness ==
    /\ pc = "built" /\ last_op = "run_trainer_init" /\ ~train_loc /\ ~train_scale
    /\ provide_optimizers.nr /\ provide_optimizers.irls
    /\ C26_ZeroLikeParams(graph.gradients_full)
    /\ IsNone(graph.nr_update_full) /\ IsNone(graph.irls_update_batched)
    /\ ~graph.trainer_full.created

(* ========================= claims on a training run ==================== *)
\* C2: once a feature is flagged converged, every later optimisation step
\* leaves its column of the parameter matrix (a and b) unchanged.
C2_ConvergedColumnsFrozen ==
    [][\A i \in 1..NFeatures :
          converged[i] => \A k \in 1..NParams : params'.val[k][i] = params.val[k][i]]_vars

\* C10: every step applied to the parameters is the gradient / update of the
\* graph with each NaN entry replaced by zero and every other entry
\* unchanged; no NaN is ever stored in the parameters.
C10_StepIsFiltered ==
    (global_step' = global_step + 1) =>
        \A k \in 1..NParams : \A f \in 1..NFeatures :
            /\ ~IsNan(params'.val[k][f])
            /\ params'.val[k][f] =
                 params.val[k][f] - LearningRate *
                    (IF IsNan(GraphStep(graph', last_op').val[k][f]) THEN 0
                     ELSE GraphStep(graph', last_op').val[k][f])

Min(S) == CHOOSE m \in S : \A x \in S : m <= x

\* a set of indices as the ascending index array numpy returns
RECURSIVE sorted(_)
sorted(S) == IF S = {} THEN <<>> ELSE <<Min(S)>> \o sorted(S \ {Min(S)})

Range(q) == {q[j] : j \in 1..Len(q)}

\* di.linear_constraint(x).coefs[0] of the constraint "sum of the parameters
\* in x = 0": coefficient 1 for each named parameter, 0 for the others
linear_constraint(x, n_par_all) == [j \in 1..n_par_all |-> IF j \in x THEN 1 ELSE 0]

\* np.where(x == 1)[0]
where_one(x) == sorted({j \in 1..Len(x) : x[j] = 1})

\* np.where(arr == x)[0]: the positions of x in arr
where_eq(arr, x) == sorted({q \in 1..Len(arr) : arr[q] = x})

constraint_ls(constraints, n_par_all) ==
    [c \in 1..Len(constraints) |-> linear_constraint(constraints[c], n_par_all)]

idx_constr(cls) == [c \in 1..Len(cls) |-> Head(where_one(cls[c]))]

idx_depending(cls) == [c \in 1..Len(cls) |-> Tail(where_one(cls[c]))]

\* list(set(range(n_par_all)) - set(idx_constr)): small integers iterate ascending
idx_unconstr(n_par_all, heads) == sorted((1..n_par_all) \ Range(heads))

\* dmat[:, idx_unconstr]
dmat_var(dmat, unconstr) ==
    [o \in 1..Len(dmat) |-> [q \in 1..Len(unconstr) |-> dmat[o][unconstr[q]]]]

MatT(m, ncols) == [j \in 1..ncols |-> [o \in 1..Len(m) |-> m[o][j]]]

DropCol(m) == [o \in 1..Len(m) |-> Tail(m[o])]

\* rows of m other than row piv, with their first entry eliminated by row piv
Eliminate(m, piv) ==
    [o \in 1..(Len(m) - 1) |->
        [j \in 1..Len(m[piv]) |->
            m[piv][1] * m[IF o < piv THEN o ELSE o + 1][j]
              - m[IF o < piv THEN o ELSE o + 1][1] * m[piv][j]]]

\* np.linalg.matrix_rank of an integer matrix with ncols columns
RECURSIVE matrix_rank(_, _)
matrix_rank(m, ncols) ==
    IF Len(m) = 0 \/ ncols = 0 THEN 0
    ELSE IF \E o \in 1..Len(m) : m[o][1] # 0
         THEN 1 + matrix_rank(DropCol(Eliminate(m, Min({o \in 1..Len(m) : m[o][1] # 0}))),
                              ncols - 1)
         ELSE matrix_rank(DropCol(m), ncols - 1)

\* lines 542-545: the row of a constrained parameter with dependent parameters dep.
\* pos[d] are the positions np.where finds for dep[d] in idx_unconstr (one or none)
constrained_row_at(dep, pos, n_par_free) ==
    IF Len(dep) = 0
    THEN [exc |-> "IndexError", row |-> <<>>]       \* empty float index array
    ELSE IF \A d \in 1..Len(dep) : pos[d] = <<>>
    THEN [exc |-> "none", row |-> [q \in 1..n_par_free |-> 0]]   \* index of shape (m, 0)
    ELSE IF \E d \in 1..Len(dep) : pos[d] = <<>>
    THEN [exc |-> "IndexError", row |-> <<>>]       \* ragged index array
    ELSE IF \E d \in 1..Len(dep) : pos[d][1] > n_par_free
    THEN [exc |-> "IndexError", row |-> <<>>]       \* out of bounds
    ELSE [exc |-> "none",
          row |-> [q \in 1..n_par_free |->
                      IF \E d \in 1..Len(dep) : pos[d][1] = q THEN -1 ELSE 0]]

constrained_row(dep, unconstr, n_par_free) ==
    constrained_row_at(dep, [d \in 1..Len(dep) |-> where_eq(unconstr, dep[d])], n_par_free)

\* lines 547-549: the row of an unconstrained parameter
unconstrained_row(i, unconstr, n_par_free) ==
    IF where_eq(unconstr, i)[1] > n_par_free
    THEN [exc |-> "IndexError", row |-> <<>>]
    ELSE [exc |-> "none",
          row |-> [q \in 1..n_par_free |-> IF q = where_eq(unconstr, i)[1] THEN 1 ELSE 0]]

\* lines 539-549: the rows of constraint_mat, one per design parameter
constraint_rows(n_par_all, n_par_free, heads, deps, unconstr) ==
    [i \in 1..n_par_all |->
        IF i \in Range(heads)
        THEN constrained_row(deps[where_eq(heads, i)[1]], unconstr, n_par_free)
        ELSE unconstrained_row(i, unconstr, n_par_free)]

\* the outcome of the call once the index arrays are computed
constraints_result(dmat, rws, dvar, n_par_free, ncols) ==
    IF n_par_free < 0
    THEN [exc |-> "ValueError", constraint_mat |-> <<>>, warned |-> FALSE]
    ELSE IF ncols = 0 \/ \E i \in 1..Len(rws) : rws[i].exc # "none"
    THEN [exc |-> "IndexError", constraint_mat |-> <<>>, warned |-> FALSE]
    ELSE [exc |-> "none",
          constraint_mat |-> [i \in 1..Len(rws) |-> rws[i].row],
          \* line 558: the rank of the reduced design against the rank of its transpose
          warned |-> matrix_rank(dvar, ncols) # matrix_rank(MatT(dvar, ncols), Len(dvar))]

constraints_indexed(dmat, n_par_all, n_par_free, heads, deps, unconstr) ==
    constraints_result(dmat,
                       constraint_rows(n_par_all, n_par_free, heads, deps, unconstr),
                       dmat_var(dmat, unconstr), n_par_free, Len(unconstr))

constraints_parsed(dmat, n_par_all, n_par_free, cls) ==
    constraints_indexed(dmat, n_par_all, n_par_free, idx_constr(cls), idx_depending(cls),
                        idx_unconstr(n_par_all, idx_constr(cls)))

build_equality_constraints_string(dmat, constraints) ==
    constraints_parsed(dmat, Len(dmat[1]), Len(dmat[1]) - Len(constraints),
                       constraint_ls(constraints, Len(dmat[1])))

\* lines 488-490: the factors to constrain turned into constraint equations,
\* "+".join over patsy's design matrix of the factor.  A factor stands for the
\* set of design columns of its levels.  Iterating the design matrix yields
\* its rows, which are not strings: join raises TypeError.
factor_constraint_ls(dmat, constraints) ==
    IF Len(constraints) > 0 /\ Len(dmat) > 0 THEN [exc |-> "TypeError", ls |-> <<>>]
    ELSE [exc |-> "none", ls |-> constraints]

\* build_equality_constraints, lines 482-500.  Line 496 hands the name
\* constraints_ls to the parser; the list built at line 488 is constraint_ls
\* and no constraints_ls exists: NameError
build_equality_constraints(dmat, constraints) ==
    IF factor_constraint_ls(dmat, constraints).exc # "none"
    THEN [exc |-> factor_constraint_ls(dmat, constraints).exc,
          constraint_mat |-> <<>>, warned |-> FALSE]
    ELSE [exc |-> "NameError", constraint_mat |-> <<>>, warned |-> FALSE]

\* full_params = constraints . independent_params
reconstruct(constraint_mat, p) ==
    [i \in 1..Len(constraint_mat) |->
        LET RECURSIVE dot(_)
            dot(q) == IF q = 0 THEN 0 ELSE constraint_mat[i][q] * p[q] + dot(q - 1)
        IN dot(Len(p))]

RECURSIVE SeqsUpTo(_, _)
SeqsUpTo(S, n) ==
    IF n = 0 THEN {<<>>}
    ELSE SeqsUpTo(S, n - 1) \cup
         {Append(q, x) : q \in {r \in SeqsUpTo(S, n - 1) : Len(r) = n - 1}, x \in S}

DesignMatrices == [1..NObs -> [1..NDesignParams -> {0, 1}]]

ConstraintLists == SeqsUpTo((SUBSET (1..NDesignParams)) \ {{}}, MaxConstraints)

InitConstr ==
    /\ termination_type = "global"
    /\ train_loc = FALSE
    /\ train_scale = FALSE
    /\ provide_optimizers = [gd |-> FALSE, nr |-> FALSE, irls |-> FALSE]
    /\ dtype = "float64"
    /\ converged = [i \in 1..NFeatures |-> FALSE]
    /\ idx_nonconverged = IdxNonconverged(converged)
    /\ seed = 1
    /\ params = InitParams(dtype)
    /\ graph = EmptyGraph
    /\ built = [converged |-> converged, idx_nonconverged |-> idx_nonconverged]
    /\ global_step = 0
    /\ last_op = "none"
    /\ pc = "idle"
    /\ ipar = [pc |-> "idle"]
    /\ jac = [pc |-> "idle"]
    /\ egc = [pc |-> "idle"]
    /\ \E dmat \in DesignMatrices : \E constraints \in ConstraintLists :
          \E fn \in {"build_equality_constraints_string", "build_equality_constraints"} :
             constr = [pc |-> "call", fn |-> fn, dmat |-> dmat, constraints |-> constraints]

\* one call of build_equality_constraints_string
ConstrDone(r) ==
    constr' = [pc |-> IF r.exc = "none" THEN "returned" ELSE "raised",
               fn |-> constr.fn,
               dmat |-> constr.dmat,
               constraints |-> constr.constraints,
               exc |-> r.exc,
               constraint_mat |-> r.constraint_mat,
               warned |-> r.warned]

BuildEqualityConstraints ==
    /\ constr.pc = "call"
    /\ constr.fn = "build_equality_constraints_string"
    /\ \E r \in {build_equality_constraints_string(constr.dmat, constr.constraints)} :
          ConstrDone(r)
    /\ UNCHANGED <<gvars, ipar, jac, egc>>

\* one call of build_equality_constraints, the design matrix already built
\* and the factors to constrain given by their design columns
BuildEqualityConstraintsOfFactors ==
    /\ constr.pc = "call"
    /\ constr.fn = "build_equality_constraints"
    /\ \E r \in {build_equality_constraints(constr.dmat, constr.constraints)} :
          ConstrDone(r)
    /\ UNCHANGED <<gvars, ipar, jac, egc>>

NextConstr == BuildEqualityConstraints \/ BuildEqualityConstraintsOfFactors

SpecConstr == InitConstr /\ [][NextConstr]_vars

(* ==================== claims on the constraint parser ================== *)
PValues == {-1, 1, 2}

Accepted == constr.pc = "returned"

NParFree == Len(constr.constraint_mat[1])

RECURSIVE SumOver(_, _)
SumOver(v, S) == IF S = {} THEN 0 ELSE v[Min(S)] + SumOver(v, S \ {Min(S)})

\* C7: for every accepted list of sum-to-zero constraints and every
\* independent parameter vector p, the parameters named in each constraint
\* sum to zero in the reconstructed vector C.p.
C7_ReconstructedSatisfiesConstraints ==
    Accepted =>
        \A p \in [1..NParFree -> PValues] :
            \A c \in 1..Len(constr.constraints) :
                SumOver(reconstruct(constr.constraint_mat, p), constr.constraints[c]) = 0

\* the reduced design matrix dmat[:, idx_unconstr] of an accepted call
ReducedDesign ==
    dmat_var(constr.dmat,
             idx_unconstr(NDesignParams,
                          idx_constr(constraint_ls(constr.constraints, NDesignParams))))

\* C8: whenever the reduced design matrix of an accepted call is
\* rank-deficient, the warning "constrained design matrix is not full rank"
\* is logged (and the constraint matrix is still returned).
C8_WarnsWhenRankDeficient ==
    (Accepted /\ matrix_rank(ReducedDesign, NParFree) < NParFree) => constr.warned

\* the column of the unconstrained parameter j
C25_Column(j) == where_eq(idx_unconstr(NDesignParams, [c \in 1..Len(constr.constraints) |->
                                                          Min(constr.constraints[c])]), j)[1]

C25_Heads == {Min(constr.constraints[c]) : c \in 1..Len(constr.constraints)}

\* C25: for every accepted list of k constraints over n design parameters
\* the constraint matrix is n x (n - k); the row of an unconstrained
\* parameter is the unit vector of its own column; the row of a constrained
\* parameter (the first one of its constraint) has -1 in the column of each
\* other parameter of its constraint and 0 elsewhere.
C25_ConstraintMatrixRows ==
    (Accepted /\ constr.fn = "build_equality_constraints_string") =>
        /\ Len(constr.constraint_mat) = NDesignParams
        /\ \A i \in 1..NDesignParams :
              Len(constr.constraint_mat[i]) = NDesignParams - Len(constr.constraints)
        /\ \A i \in (1..NDesignParams) \ C25_Heads :
              \A q \in 1..NParFree :
                 constr.constraint_mat[i][q] = IF q = C25_Column(i) THEN 1 ELSE 0
        /\ \A c \in 1..Len(constr.constraints) :
              /\ \A j \in constr.constraints[c] \ {Min(constr.constraints[c])} :
                    /\ j \notin C25_Heads
                    /\ constr.constraint_mat[Min(constr.constraints[c])][C25_Column(j)] = -1
              /\ \A j \in (1..NDesignParams) \ (C25_Heads \cup constr.constraints[c]) :
                    constr.constraint_mat[Min(constr.constraints[c])][C25_Column(j)] = 0

\* C18: build_equality_constraints returns the design matrix together with
\* the constraint matrix that the parser builds from the sum-to-zero
\* equations of the factors to constrain.
C18_ReturnsDesignAndConstraintMatrix ==
    (constr.pc \in {"returned", "raised"} /\ constr.fn = "build_equality_constraints"
        /\ build_equality_constraints_string(constr.dmat, constr.constraints).exc = "none") =>
        /\ constr.pc = "returned"
        /\ constr.constraint_mat =
              build_equality_constraints_string(constr.dmat, constr.constraints).constraint_mat

(* ============ Estimator.__init__ / init_par (glm_norm/estimator.py) ===== *)
\* an init_a / init_b argument: a string, or "ndarray" for a numeric matrix
InitAValues == {"AUTO", "auto", "closed_form", "Closed_Form", "standard", "all_zero",
                "all zero", "random", "init_model", "foo", "ndarray"}

InitBValues == {"AUTO", "auto", "closed_form", "Closed_Form", "standard", "all_zero",
                "random", "init_model", "foo", "ndarray"}

isinstance_str(x) == x # "ndarray"

\* str.lower() on the strings above
lower(x) ==
    CASE x = "AUTO" -> "auto"
      [] x = "Closed_Form" -> "closed_form"
      [] OTHER -> x

\* closedform_norm_glm_mean: raises np.linalg.LinAlgError on a singular system
closedform_norm_glm_mean(singular) == IF singular THEN "LinAlgError" ELSE "none"

\* closedform_norm_glm_logsd on the full scale design (intercept_only FALSE) or
\* on its first column (intercept_only TRUE)
closedform_norm_glm_logsd(singular, intercept_only) ==
    IF singular = "always" \/ (singular = "full" /\ ~intercept_only)
    THEN "LinAlgError" ELSE "none"

ResA(exc, init_a, init_a_str, groupwise_means, trainloc, failed) ==
    [exc |-> exc, init_a |-> init_a, init_a_str |-> init_a_str,
     groupwise_means |-> groupwise_means, train_loc |-> trainloc,
     closedform_failed |-> failed]

\* faulty variant: size factors different from 1 do not force the training
init_par_a_option_ignore_size_factors(in, init_a, init_a_str) ==
    IF lower(init_a) = "closed_form"
    THEN IF closedform_norm_glm_mean(in.singular_mean) # "none"
         THEN ResA("LinAlgError", init_a, init_a_str, "None", TRUE, TRUE)
         ELSE ResA("none", "closed_form", init_a_str, "groupwise_means",
                   ~(in.rmsd_a \in {"zero", "empty"}), FALSE)
    ELSE IF lower(init_a) = "standard"
    THEN ResA("none", "standard", init_a_str, "None", TRUE, FALSE)
    ELSE IF lower(init_a) = "all_zero"
    THEN ResA("none", "all_zero", init_a_str, "None", TRUE, FALSE)
    ELSE ResA("ValueError", init_a, init_a_str, "None", TRUE, FALSE)

\* lines 172-210, init_a being the string left by lines 169-170
init_par_a_option(in, init_a, init_a_str) ==
    IF lower(init_a) = "closed_form"
    THEN IF closedform_norm_glm_mean(in.singular_mean) # "none"
         THEN ResA("LinAlgError", init_a, init_a_str, "None", TRUE, TRUE)
         ELSE ResA("none", "closed_form", init_a_str, "groupwise_means",
                   (~(in.rmsd_a \in {"zero", "empty"})) \/ in.size_factors = "not_one",
                   FALSE)
    ELSE IF lower(init_a) = "standard"
    THEN ResA("none", "standard", init_a_str, "None", TRUE, FALSE)
    ELSE IF lower(init_a) = "all_zero"
    THEN ResA("none", "all_zero", init_a_str, "None", TRUE, FALSE)
    ELSE ResA("ValueError", init_a, init_a_str, "None", TRUE, FALSE)

\* lines 164-210: the location part without an init_model
init_par_a(in) ==
    IF isinstance_str(in.init_a)
    THEN init_par_a_option(in,
                           IF lower(in.init_a) = "auto" THEN "closed_form" ELSE in.init_a,
                           lower(in.init_a))
    ELSE ResA("none", "ndarray", "None", "None", TRUE, FALSE)

ResB(exc, init_b, groupwise_means, mean, failed) ==
    [exc |-> exc, init_b |-> init_b, groupwise_means |-> groupwise_means,
     mean |-> mean, closedform_failed |-> failed]

\* lines 250-277, init_b being the string left by lines 229-231
init_par_b_closedform(in, init_b, groupwise_means, init_mean) ==
    IF lower(init_b) = "closed_form"
    THEN IF closedform_norm_glm_logsd(in.singular_logsd, FALSE) # "none"
         THEN ResB("LinAlgError", init_b, groupwise_means, init_mean, TRUE)
         ELSE ResB("none", "closed_form", groupwise_means, init_mean, FALSE)
    ELSE IF closedform_norm_glm_logsd(in.singular_logsd, TRUE) # "none"
         THEN ResB("LinAlgError", init_b, "None", init_mean, TRUE)
         ELSE ResB("none", "standard", "None", init_mean, FALSE)

\* lines 219-248
init_par_b_recompute(in, a, init_b, unequal) ==
    init_par_b_closedform(in,
                          IF unequal THEN "standard" ELSE init_b,
                          IF unequal THEN "None" ELSE a.groupwise_means,
                          IF unequal THEN "init_mean" ELSE "None")

\* lines 216-286, init_b being the string left by lines 213-214
init_par_b_option(in, a, init_b) ==
    IF lower(init_b) = "closed_form" \/ lower(init_b) = "standard"
    THEN init_par_b_recompute(in, a, init_b,
                              \/ in.dmats = "unequal"                         \* dmats_unequal
                              \/ (a.init_a_str # "None" /\ a.init_a_str # init_b))   \* inits_unequal
    ELSE IF lower(init_b) = "all_zero"
    THEN ResB("none", "all_zero", a.groupwise_means, "None", FALSE)
    ELSE ResB("ValueError", init_b, a.groupwise_means, "None", FALSE)

\* lines 212-286: the scale part without an init_model
init_par_b(in, a) ==
    IF isinstance_str(in.init_b)
    THEN init_par_b_option(in, a, IF lower(in.init_b) = "auto" THEN "standard" ELSE in.init_b)
    ELSE ResB("none", "ndarray", a.groupwise_means, "None", FALSE)

ResPar(exc, init_a, init_b, trainloc, groupwise_means, mean, failed) ==
    [exc |-> exc, init_a |-> init_a, init_b |-> init_b, train_loc |-> trainloc,
     groupwise_means |-> groupwise_means, mean |-> mean, closedform_failed |-> failed]

init_par_join(a, b) ==
    IF a.exc # "none"
    THEN ResPar(a.exc, a.init_a, "unset", a.train_loc, "None", "None", a.closedform_failed)
    ELSE ResPar(b.exc, a.init_a, b.init_b, a.train_loc, b.groupwise_means, b.mean,
                b.closedform_failed)

\* lines 288-314: both parts with an init_model
init_par_model(in) ==
    ResPar("none",
           IF isinstance_str(in.init_a) /\ lower(in.init_a) \in {"auto", "init_model"}
           THEN "init_model" ELSE in.init_a,
           IF isinstance_str(in.init_b) /\ lower(in.init_b) \in {"auto", "init_model"}
           THEN "init_model" ELSE in.init_b,
           TRUE, "None", "None", FALSE)

NoInitModel(in, a) == init_par_join(a, init_par_b(in, a))

init_par(in) ==
    IF in.init_model = "None" THEN NoInitModel(in, init_par_a(in)) ELSE init_par_model(in)

\* the values init_par returns as matrices; any other value is still a string
Numeric == {"ndarray", "closed_form", "standard", "all_zero", "init_model"}

\* lines 109-110: init_a.astype(dtype), init_b.astype(dtype)
astype(r) ==
    IF r.exc = "none" /\ ~(r.init_a \in Numeric /\ r.init_b \in Numeric)
    THEN [r EXCEPT !.exc = "AttributeError"]
    ELSE r

\* lines 97-110 of the constructor
Estimator_init(in) == astype(init_par(in))

InitInitPar ==
    /\ termination_type = "global"
    /\ train_loc = FALSE
    /\ train_scale = FALSE
    /\ provide_optimizers = [gd |-> FALSE, nr |-> FALSE, irls |-> FALSE]
    /\ dtype = "float64"
    /\ converged = [i \in 1..NFeatures |-> FALSE]
    /\ idx_nonconverged = IdxNonconverged(converged)
    /\ seed = 1
    /\ params = InitParams(dtype)
    /\ graph = EmptyGraph
    /\ built = [converged |-> converged, idx_nonconverged |-> idx_nonconverged]
    /\ global_step = 0
    /\ last_op = "none"
    /\ pc = "idle"
    /\ constr = [pc |-> "idle"]
    /\ jac = [pc |-> "idle"]
    /\ egc = [pc |-> "idle"]
    /\ \E init_a \in InitAValues, init_b \in InitBValues,
          init_model \in {"None", "model"},
          size_factors \in {"None", "ones", "not_one"},
          rmsd_a \in {"zero", "empty", "nonzero"},
          dmats \in {"equal", "unequal", "other_shape"},
          singular_mean \in BOOLEAN,
          singular_logsd \in {"never", "full", "always"},
          quick_scale \in BOOLEAN :
          ipar = [pc |-> "call",
                  in |-> [init_a |-> init_a, init_b |-> init_b, init_model |-> init_model,
                          size_factors |-> size_factors, rmsd_a |-> rmsd_a, dmats |-> dmats,
                          singular_mean |-> singular_mean,
                          singular_logsd |-> singular_logsd,
                          quick_scale |-> quick_scale]]

\* one call of the constructor, up to the conversion of the initial matrices
EstimatorInit ==
    /\ ipar.pc = "call"
    /\ \E r \in {Estimator_init(ipar.in)} :
          ipar' = [pc |-> IF r.exc = "none" THEN "constructed" ELSE "raised",
                   in |-> ipar.in,
                   exc |-> r.exc,
                   init_a |-> r.init_a,
                   init_b |-> r.init_b,
                   groupwise_means |-> r.groupwise_means,
                   mean |-> r.mean,
                   closedform_failed |-> r.closedform_failed,
                   train_loc |-> r.train_loc,
                   train_scale |-> ~ipar.in.quick_scale]
    /\ UNCHANGED <<gvars, constr, jac, egc>>

NextInitPar == EstimatorInit

SpecInitPar == InitInitPar /\ [][NextInitPar]_vars

(* ========================= claims on init_par ========================== *)
\* C9: when a closed-form initialization fails with LinAlgError, the
\* failure is caught inside init_par, the "standard" heuristic is used
\* instead, and the constructor does not raise LinAlgError.
C9_LinAlgErrorCaughtLocally ==
    (ipar.pc \in {"constructed", "raised"} /\ ipar.closedform_failed) =>
        /\ ipar.exc # "LinAlgError"
        /\ "standard" \in {ipar.init_a, ipar.init_b}

\* the string options the docstring of the constructor lists (lines 60-80)
DocumentedInitA == {"auto", "all zero", "random", "standard", "init_model", "closed_form"}

DocumentedInitB == {"auto", "random", "standard", "init_model", "closed_form"}

C19_Documented(x, options) == ~isinstance_str(x) \/ lower(x) \in options

\* C19: every documented init_a and init_b string option is accepted and
\* yields numeric initial matrices; the ValueError "not recognized" is raised
\* only for a string outside the documented options.
C19_DocumentedOptionsAccepted ==
    (ipar.pc \in {"constructed", "raised"} /\ ipar.exc # "LinAlgError") =>
        /\ (C19_Documented(ipar.in.init_a, DocumentedInitA)
              /\ C19_Documented(ipar.in.init_b, DocumentedInitB)) =>
                /\ ipar.exc = "none"
                /\ ipar.init_a \in Numeric
                /\ ipar.init_b \in Numeric
        /\ ipar.exc = "ValueError" =>
              \/ ~C19_Documented(ipar.in.init_a, DocumentedInitA)
              \/ ~C19_Documented(ipar.in.init_b, DocumentedInitB)

\* C23: without an init_model, when init_a resolves to the closed form
\* ("auto" or "closed_form" in any letter case), init_b is "closed_form" and
\* the two design matrices are identical, init_b is computed by the
\* closed-form scale estimator from the group-wise means of the location
\* initialization and is not downgraded to "standard".
C23_ClosedFormScaleReusesMeans ==
    (ipar.pc \in {"constructed", "raised"} /\ ipar.in.init_model = "None"
        /\ lower(ipar.in.init_a) \in {"auto", "closed_form"}
        /\ ipar.in.init_b = "closed_form" /\ ipar.in.dmats = "equal"
        /\ ipar.exc # "LinAlgError") =>
        /\ ipar.exc = "none"
        /\ ipar.init_a = "closed_form"
        /\ ipar.init_b = "closed_form"
        /\ ipar.groupwise_means = "groupwise_means"
        /\ ipar.mean = "None"

\* C27: after init_par with a string init_a and no init_model, _train_loc is
\* False exactly when init_a was initialized by closed form, the residual
\* rmsd of the closed form is all zero or empty, and the size factors are
\* absent or all 1.
C27_TrainLocUnlessExactClosedForm ==
    (ipar.pc = "constructed" /\ ipar.in.init_model = "None"
        /\ isinstance_str(ipar.in.init_a)) =>
        (~ipar.train_loc <=>
            /\ lower(ipar.in.init_a) \in {"auto", "closed_form"}
            /\ ipar.in.rmsd_a \in {"zero", "empty"}
            /\ ipar.in.size_factors \in {"None", "ones"})

\* an exact closed form with size factors all equal to 1: nothing to train
C27_Witness ==
    /\ ipar.pc = "constructed" /\ ipar.in.init_model = "None"
    /\ ipar.in.init_a = "closed_form" /\ ipar.in.rmsd_a = "zero"
    /\ ipar.in.size_factors = "ones"
    /\ ipar.init_a = "closed_form"
    /\ ~ipar.train_loc

(* ===== Jacobians (nb_glm/jacobians.py, base_glm_all/jacobians.py) ====== *)
\* the coefficient-invariant terms _coef_invariant_a / _W_a and
\* _coef_invariant_b / _W_b of observation o and feature f on data set sd
W_a(sd, o, f) == ((sd + 2 * o + f) % 5) - 2
W_b(sd, o, f) == ((2 * sd + o + 3 * f) % 5) - 1

\* design matrices: an intercept column followed by 0/1 covariates
design_loc(o, k) == IF k = 1 THEN 1 ELSE (o + k) % 2
design_scale(o, k) == IF k = 1 THEN 1 ELSE (o + k + 1) % 2

\* a constraints argument: None, the identity (no constraint), or one
\* sum-to-zero constraint over all n + 1 design parameters (n independent)
ConstraintMatrix(c, n) ==
    IF c = "sum_to_zero"
    THEN [k \in 1..(n + 1) |-> [j \in 1..n |-> IF k = 1 THEN -1 ELSE IF k = j + 1 THEN 1 ELSE 0]]
    ELSE [k \in 1..n |-> [j \in 1..n |-> IF k = j THEN 1 ELSE 0]]

RECURSIVE DotUpTo(_, _, _)
DotUpTo(x, y, n) == IF n = 0 THEN 0 ELSE x[n] * y[n] + DotUpTo(x, y, n - 1)

\* tf.matmul(design, constraints), one row per observation
XH_a(c, o) ==
    [j \in 1..NLocParams |->
        DotUpTo([k \in 1..Len(ConstraintMatrix(c, NLocParams)) |-> design_loc(o, k)],
                [k \in 1..Len(ConstraintMatrix(c, NLocParams)) |->
                    ConstraintMatrix(c, NLocParams)[k][j]],
                Len(ConstraintMatrix(c, NLocParams)))]

XH_b(c, o) ==
    [j \in 1..NScaleParams |->
        DotUpTo([k \in 1..Len(ConstraintMatrix(c, NScaleParams)) |-> design_scale(o, k)],
                [k \in 1..Len(ConstraintMatrix(c, NScaleParams)) |->
                    ConstraintMatrix(c, NScaleParams)[k][j]],
                Len(ConstraintMatrix(c, NScaleParams)))]

RECURSIVE SumSeq(_)
SumSeq(q) == IF q = <<>> THEN 0 ELSE Head(q) + SumSeq(Tail(q))

\* tf.matmul(tf.transpose(W), XH) over the observations idx: features x coefficients
a_byobs(in, idx) ==
    Tensor(NFeatures, NLocParams, "float64",
           [f \in 1..NFeatures |-> [j \in 1..NLocParams |->
               SumSeq([q \in 1..Len(idx) |->
                         W_a(in.seed, idx[q], f) * XH_a(in.constraints_loc, idx[q])[j]])]])

b_byobs(in, idx) ==
    Tensor(NFeatures, NScaleParams, "float64",
           [f \in 1..NFeatures |-> [j \in 1..NScaleParams |->
               SumSeq([q \in 1..Len(idx) |->
                         W_b(in.seed, idx[q], f) * XH_b(in.constraints_scale, idx[q])[j]])]])

\* tf.concat([J_a, J_b], axis=1)
concat_ab(J_a, J_b) ==
    Tensor(J_a.rows, J_a.cols + J_b.cols, J_a.dtype,
           [f \in 1..J_a.rows |-> J_a.val[f] \o J_b.val[f]])

\* _assemble_bybatch of the analytic mode, on the observations idx
analytic_assemble_bybatch(in, idx) ==
    IF in.jac_a /\ in.jac_b THEN concat_ab(a_byobs(in, idx), b_byobs(in, idx))
    ELSE IF in.jac_a /\ ~in.jac_b THEN a_byobs(in, idx)
    ELSE IF ~in.jac_a /\ in.jac_b THEN b_byobs(in, idx)
    ELSE Raise("ValueError")

\* _jac / _jac_a / _jac_b: tf.gradients of the log-likelihood of the
\* observations idx with respect to params / a_var / b_var, transposed
tf_gradients(in, idx) ==
    IF in.jac_a /\ in.jac_b THEN concat_ab(a_byobs(in, idx), b_byobs(in, idx))
    ELSE IF in.jac_a /\ ~in.jac_b THEN a_byobs(in, idx)
    ELSE IF ~in.jac_a /\ in.jac_b THEN b_byobs(in, idx)
    ELSE Raise("ValueError")

\* _red: tf.add(prev, cur)
red(prev, cur) ==
    IF prev.exc # "none" THEN prev
    ELSE IF cur.exc # "none" THEN cur
    ELSE Tensor(prev.rows, prev.cols, prev.dtype,
                [f \in 1..prev.rows |-> [j \in 1..prev.cols |->
                    prev.val[f][j] + cur.val[f][j]]])

\* dataset.batch(batch_size) of the sample indices 1..n: consecutive chunks,
\* the last one shorter when batch_size does not divide n
NBatches(n, batch_size) == (n + batch_size - 1) \div batch_size

\* faulty variant: a last batch shorter than batch_size is delivered empty
batch_drop_remainder(n, batch_size, b) ==
    [q \in 1..(IF b * batch_size <= n THEN batch_size ELSE 0) |->
        (b - 1) * batch_size + q]

batch(n, batch_size, b) ==
    [q \in 1..(IF b * batch_size <= n THEN batch_size ELSE n - (b - 1) * batch_size) |->
        (b - 1) * batch_size + q]

\* op_utils.map_reduce: map_fn on every batch, the results folded by
\* reduce_fn in the order the batches are delivered
RECURSIVE fold_red(_, _)
fold_red(mapped, n) ==
    IF n = 1 THEN mapped[1] ELSE red(fold_red(mapped, n - 1), mapped[n])

map_reduce_analytic(in) ==
    fold_red([b \in 1..Len(in.order) |->
                 analytic_assemble_bybatch(in, batch(NObservations, in.batch_size, in.order[b]))],
             Len(in.order))

map_reduce_tf(in) ==
    fold_red([b \in 1..Len(in.order) |->
                 tf_gradients(in, batch(NObservations, in.batch_size, in.order[b]))],
             Len(in.order))

sample_indices == [o \in 1..NObservations |-> o]

\* Jacobians._analytic and the part of JacobiansGLMALL.analytic after the
\* noise model is resolved
analytic_body(in) ==
    IF in.iterator THEN map_reduce_analytic(in)
    ELSE analytic_assemble_bybatch(in, sample_indices)

\* Jacobians._tf and the part of JacobiansGLMALL.tf after the noise model
\* is resolved
tf_body(in) ==
    IF in.iterator /\ in.batch_model = "None" THEN map_reduce_tf(in)
    ELSE IF ~in.iterator /\ in.batch_model = "None" THEN tf_gradients(in, sample_indices)
    ELSE tf_gradients(in, sample_indices)

JacobiansGLMALL_analytic(in) ==
    IF in.noise_model = "nb" THEN analytic_body(in) ELSE Raise("ValueError")

JacobiansGLMALL_tf(in) ==
    IF in.noise_model = "nb" THEN tf_body(in) ELSE Raise("ValueError")

\* negative of a tensor, None staying None
tf_negative(t) ==
    IF ~IsTensor(t) THEN t
    ELSE Tensor(t.rows, t.cols, t.dtype,
                [f \in 1..t.rows |-> [j \in 1..t.cols |-> 0 - t.val[f][j]]])

\* J[:, first:until]
cols_of(t, first, until) ==
    Tensor(t.rows, until - first + 1, t.dtype,
           [f \in 1..t.rows |-> [j \in 1..(until - first + 1) |-> t.val[f][first + j - 1]]])

JacResult(exc, J, J_a, J_b, assigned) ==
    [exc |-> exc, jac |-> J, jac_a |-> J_a, jac_b |-> J_b,
     neg_jac |-> tf_negative(J), neg_jac_a |-> tf_negative(J_a),
     neg_jac_b |-> tf_negative(J_b), assigned |-> assigned]

\* nb_glm Jacobians.__init__, lines 169-206: the checks and the dispatch on mode
Jacobians_dispatch(in) ==
    IF in.constraints_loc # "None" /\ in.mode # "tf" THEN Raise("ValueError")
    ELSE IF in.constraints_scale # "None" /\ in.mode # "tf" THEN Raise("ValueError")
    ELSE IF in.mode = "analytic" THEN analytic_body(in)
    ELSE IF in.mode = "tf" THEN tf_body(in)
    ELSE Raise("ValueError")

\* nb_glm Jacobians.__init__, lines 208-238: the blocks and the attributes
Jacobians_assign(in, J) ==
    IF J.exc # "none" THEN JacResult(J.exc, NoneT, NoneT, NoneT, FALSE)
    ELSE IF in.jac_a /\ in.jac_b
    THEN JacResult("none", J, cols_of(J, 1, NLocParams), cols_of(J, NLocParams + 1, J.cols),
                   TRUE)
    ELSE IF in.jac_a /\ ~in.jac_b THEN JacResult("none", J, J, NoneT, TRUE)
    ELSE IF ~in.jac_a /\ in.jac_b THEN JacResult("none", J, NoneT, J, TRUE)
    ELSE JacResult("ValueError", NoneT, NoneT, NoneT, FALSE)

\* faulty variant: the Jacobian of a is computed whatever jac_a says
Jacobians_init_jac_a_forced(in) ==
    Jacobians_assign([in EXCEPT !.jac_a = TRUE], Jacobians_dispatch([in EXCEPT !.jac_a = TRUE]))

Jacobians_init(in) == Jacobians_assign(in, Jacobians_dispatch(in))

\* a call of JacobiansGLMALL.analytic or JacobiansGLMALL.tf; the attributes
\* are left to the caller of the method
JacobiansGLMALL_returned(J) ==
    IF J.exc # "none" THEN JacResult(J.exc, NoneT, NoneT, NoneT, FALSE)
    ELSE JacResult("none", J, NoneT, NoneT, FALSE)

JacobiansGLMALL_call(in) ==
    JacobiansGLMALL_returned(IF in.mode = "analytic" THEN JacobiansGLMALL_analytic(in)
                             ELSE JacobiansGLMALL_tf(in))

\* BasicModel.log_probs of observation o and feature f (clipped to <= 0)
log_probs(sd, o, f) == 0 - ((sd + o + 2 * f) % 4)

\* BasicModel.log_likelihood on the observations idx: tf.reduce_sum(log_probs)
BasicModel_log_likelihood(in, idx) ==
    Tensor(1, 1, "float64",
           <<<<SumSeq([q \in 1..Len(idx) |->
                        SumSeq([f \in 1..NFeatures |-> log_probs(in.seed, idx[q], f)])])>>>>)

\* FullDataModel.__init__: the log-likelihood of the whole data, accumulated
\* over the batches of dataset.batch(batch_size)
FullDataModel_init(in) ==
    [exc |-> "none",
     log_likelihood |->
        fold_red([b \in 1..Len(in.order) |->
                     BasicModel_log_likelihood(
                         in, batch(NObservations, in.batch_size, in.order[b]))],
                 Len(in.order))]

\* every order in which the batches of one pass can be delivered
Orders(n) == {q \in [1..n -> 1..n] : \A x, y \in 1..n : q[x] = q[y] => x = y}

NoiseModels == {"nb", "norm", "beta", "bern", "poisson"}

JacInputsBatched(impl, noise_model, mode, c_loc, c_scale, iterator, batch_size) ==
    {[impl |-> impl, noise_model |-> noise_model, mode |-> mode,
      constraints_loc |-> c_loc, constraints_scale |-> c_scale,
      iterator |-> iterator, batch_model |-> batch_model,
      jac_a |-> jac_a, jac_b |-> jac_b,
      batch_size |-> batch_size, order |-> order, seed |-> sd] :
        batch_model \in {"None", "given"},
        jac_a \in BOOLEAN, jac_b \in BOOLEAN,
        order \in Orders(NBatches(NObservations, batch_size)),
        sd \in 1..NSeeds}

\* with an iterator the data comes in batches of any size; without one the
\* whole data is a single tensor
JacInputs(impl, noise_model, mode, c_loc, c_scale) ==
    UNION {JacInputsBatched(impl, noise_model, mode, c_loc, c_scale, TRUE, bs) :
              bs \in 1..NObservations}
    \cup JacInputsBatched(impl, noise_model, mode, c_loc, c_scale, FALSE, NObservations)

GraphIdle ==
    /\ termination_type = "global"
    /\ train_loc = FALSE
    /\ train_scale = FALSE
    /\ provide_optimizers = [gd |-> FALSE, nr |-> FALSE, irls |-> FALSE]
    /\ dtype = "float64"
    /\ converged = [i \in 1..NFeatures |-> FALSE]
    /\ idx_nonconverged = IdxNonconverged(converged)
    /\ seed = 1
    /\ params = InitParams(dtype)
    /\ graph = EmptyGraph
    /\ built = [converged |-> converged, idx_nonconverged |-> idx_nonconverged]
    /\ global_step = 0
    /\ last_op = "none"
    /\ pc = "idle"

\* nb_glm Jacobians take any constraints argument; the tensors handed to
\* JacobiansGLMALL come from _set_constraints and are never None
InitJac ==
    /\ GraphIdle
    /\ constr = [pc |-> "idle"]
    /\ ipar = [pc |-> "idle"]
    /\ egc = [pc |-> "idle"]
    /\ \/ \E mode \in {"analytic", "tf", "closed_form"},
             c_loc \in {"None", "eye", "sum_to_zero"},
             c_scale \in {"None", "eye", "sum_to_zero"} :
             \E in \in JacInputs("nb_glm", "nb", mode, c_loc, c_scale) :
                jac = [pc |-> "call", in |-> in]
       \/ \E noise_model \in NoiseModels, mode \in {"analytic", "tf"},
             c_loc \in {"eye", "sum_to_zero"}, c_scale \in {"eye", "sum_to_zero"} :
             \E in \in JacInputs("glm_all", noise_model, mode, c_loc, c_scale) :
                jac = [pc |-> "call", in |-> in]
       \/ \E bs \in 1..NObservations, sd \in 1..NSeeds :
             \E order \in Orders(NBatches(NObservations, bs)) :
                jac = [pc |-> "call",
                       in |-> [impl |-> "full_data_model", batch_size |-> bs,
                               order |-> order, seed |-> sd]]

JacDone(r) ==
    jac' = [pc |-> IF r.exc = "none" THEN "built" ELSE "raised", in |-> jac.in, out |-> r]

\* construction of the nb_glm Jacobians
BuildJacobians ==
    /\ jac.pc = "call"
    /\ jac.in.impl = "nb_glm"
    /\ \E r \in {Jacobians_init(jac.in)} : JacDone(r)
    /\ UNCHANGED <<gvars, constr, ipar, egc>>

\* a call of JacobiansGLMALL.analytic / JacobiansGLMALL.tf
CallJacobiansGLMALL ==
    /\ jac.pc = "call"
    /\ jac.in.impl = "glm_all"
    /\ \E r \in {JacobiansGLMALL_call(jac.in)} : JacDone(r)
    /\ UNCHANGED <<gvars, constr, ipar, egc>>

\* construction of the full-data model of sgdglm
BuildFullDataModel ==
    /\ jac.pc = "call"
    /\ jac.in.impl = "full_data_model"
    /\ \E r \in {FullDataModel_init(jac.in)} :
          jac' = [pc |-> "evaluated", in |-> jac.in, out |-> r]
    /\ UNCHANGED <<gvars, constr, ipar, egc>>

NextJac == BuildJacobians \/ CallJacobiansGLMALL \/ BuildFullDataModel

SpecJac == InitJac /\ [][NextJac]_vars

(* ========================= claims on the Jacobians ===================== *)
JacFinished == jac.pc \in {"built", "raised"}

ConstraintsActive == jac.in.constraints_loc # "None" \/ jac.in.constraints_scale # "None"

\* C11: in every implementation, analytic mode with a constraints argument
\* that is not None is rejected with ValueError, and mode "tf" is not
\* rejected for the constraints.
C11_AnalyticRejectsConstraints ==
    (JacFinished /\ ConstraintsActive /\ jac.in.noise_model = "nb"
        /\ (jac.in.jac_a \/ jac.in.jac_b)) =>
        /\ jac.in.mode = "analytic" => jac.out.exc = "ValueError"
        /\ jac.in.mode = "tf" => jac.out.exc = "none"

\* C12: with jac_a = False and jac_b = False the construction raises
\* ValueError, for every mode, with or without an iterator and with or
\* without a batch_model, and no Jacobian attribute is assigned.
C12_BothMissingRaises ==
    (JacFinished /\ ~jac.in.jac_a /\ ~jac.in.jac_b) =>
        /\ jac.out.exc = "ValueError"
        /\ ~jac.out.assigned
        /\ IsNone(jac.out.jac) /\ IsNone(jac.out.jac_a) /\ IsNone(jac.out.jac_b)
        /\ IsNone(jac.out.neg_jac)

\* the error comes from the missing blocks alone: mode "tf" on a supplied
\* batch_model, no constraints
C12_Witness ==
    /\ JacFinished /\ ~jac.in.jac_a /\ ~jac.in.jac_b
    /\ jac.in.impl = "nb_glm" /\ jac.in.mode = "tf" /\ jac.in.batch_model = "given"
    /\ jac.in.constraints_loc = "None" /\ jac.in.constraints_scale = "None"
    /\ jac.out.exc = "ValueError"

\* the noise models the package supports: negative-binomial, normal, beta,
\* bernoulli
SupportedNoiseModels == {"nb", "norm", "beta", "bern"}

\* C20: a call of JacobiansGLMALL.analytic or JacobiansGLMALL.tf that asks for
\* at least one block raises ValueError exactly when the noise model is not
\* one of the supported ones.
C20_UnrecognizedNoiseModelOnly ==
    (JacFinished /\ jac.in.impl = "glm_all" /\ (jac.in.jac_a \/ jac.in.jac_b)) =>
        (jac.out.exc = "ValueError" <=> jac.in.noise_model \notin SupportedNoiseModels)

\* the contribution of the observations 1..n, each taken alone, to entry
\* (f, j) of the Jacobian
RECURSIVE C16_JacSum(_, _, _, _)
C16_JacSum(in, f, j, n) ==
    IF n = 0 THEN 0
    ELSE analytic_assemble_bybatch(in, <<n>>).val[f][j] + C16_JacSum(in, f, j, n - 1)

RECURSIVE C16_LogLikSum(_, _)
C16_LogLikSum(sd, n) ==
    IF n = 0 THEN 0
    ELSE SumSeq([f \in 1..NFeatures |-> log_probs(sd, n, f)]) + C16_LogLikSum(sd, n - 1)

tf_eye(n, dt) ==
    Tensor(n, n, dt, [k \in 1..n |-> [j \in 1..n |-> IF k = j THEN 1 ELSE 0]])

\* tf.cast(x, dtype)
tf_cast(x, dt) == [x EXCEPT !.dtype = dt]

\* faulty variant: the shape of the constraints is not looked at
set_constraints_unchecked(constraints, num_design_params, dt) ==
    IF IsNone(constraints) THEN tf_eye(num_design_params, dt)
    ELSE tf_cast(constraints, dt)

set_constraints(constraints, num_design_params, dt) ==
    IF IsNone(constraints) THEN tf_eye(num_design_params, dt)
    ELSE IF constraints.rows # num_design_params
    THEN Raise("AssertionError")                 \* "constraint dimension mismatch"
    ELSE tf_cast(constraints, dt)

\* a constraints argument: None or an xarray of float64 with r rows, c columns
ConstraintArgs ==
    {NoneT} \cup
    {Tensor(r, c, "float64",
            [k \in 1..r |-> [j \in 1..c |-> IF k = j THEN 1 ELSE IF k = r THEN -1 ELSE 0]]) :
        r \in 1..MaxDesignParams, c \in 1..MaxDesignParams}

\* lines 650-659: the location constraints are set first, then the scale ones
EstimatorGraphGLM_constraints(c_loc, c_scale) ==
    [exc |-> IF c_loc.exc # "none" THEN c_loc.exc ELSE c_scale.exc,
     constraints_loc |-> c_loc,
     constraints_scale |-> IF c_loc.exc # "none" THEN NoneT ELSE c_scale]

EstimatorGraphGLM_init(in) ==
    EstimatorGraphGLM_constraints(
        set_constraints(in.constraints_loc, in.num_design_loc_params, in.dtype),
        set_constraints(in.constraints_scale, in.num_design_scale_params, in.dtype))

InitEgc ==
    /\ GraphIdle
    /\ constr = [pc |-> "idle"]
    /\ ipar = [pc |-> "idle"]
    /\ jac = [pc |-> "idle"]
    /\ \E n_loc \in 1..MaxDesignParams, n_scale \in 1..MaxDesignParams,
          c_loc \in ConstraintArgs, c_scale \in ConstraintArgs, dt \in DTypes :
          egc = [pc |-> "call",
                 in |-> [num_design_loc_params |-> n_loc,
                         num_design_scale_params |-> n_scale,
                         constraints_loc |-> c_loc, constraints_scale |-> c_scale,
                         dtype |-> dt]]

\* construction of the estimator graph object
ConstructEstimatorGraph ==
    /\ egc.pc = "call"
    /\ \E r \in {EstimatorGraphGLM_init(egc.in)} :
          egc' = [pc |-> IF r.exc = "none" THEN "constructed" ELSE "raised",
                  in |-> egc.in, exc |-> r.exc,
                  constraints_loc |-> r.constraints_loc,
                  constraints_scale |-> r.constraints_scale]
    /\ UNCHANGED <<gvars, constr, ipar, jac>>

NextEgc == ConstructEstimatorGraph

SpecEgc == InitEgc /\ [][NextEgc]_vars

(* ================== claims on the estimator graph object =============== *)
Mismatch(constraints, num_design_params) ==
    ~IsNone(constraints) /\ constraints.rows # num_design_params

StoredAsGiven(stored, constraints, num_design_params, dt) ==
    /\ IsTensor(stored)
    /\ stored.rows = num_design_params
    /\ stored.dtype = dt
    /\ IsNone(constraints) => stored = tf_eye(num_design_params, dt)
    /\ ~IsNone(constraints) => stored.val = constraints.val

\* C13: a location or scale constraint matrix whose first dimension differs
\* from the number of design parameters of its sub-model makes the
\* construction fail; every constraint tensor stored has num_design_params
\* rows and is the identity when no constraint was given.
C13_ConstraintDimensionChecked ==
    (egc.pc \in {"constructed", "raised"}) =>
        /\ (Mismatch(egc.in.constraints_loc, egc.in.num_design_loc_params)
             \/ Mismatch(egc.in.constraints_scale, egc.in.num_design_scale_params))
           <=> egc.pc = "raised"
        /\ egc.pc = "constructed" =>
             /\ StoredAsGiven(egc.constraints_loc, egc.in.constraints_loc,
                              egc.in.num_design_loc_params, egc.in.dtype)
             /\ StoredAsGiven(egc.constraints_scale, egc.in.constraints_scale,
                              egc.in.num_design_scale_params, egc.in.dtype)

\* a matching location matrix and a mismatching scale matrix: rejected
C13_Witness ==
    /\ egc.pc = "raised"
    /\ ~IsNone(egc.in.constraints_loc)
    /\ ~Mismatch(egc.in.constraints_loc, egc.in.num_design_loc_params)
    /\ Mismatch(egc.in.constraints_scale, egc.in.num_design_scale_params)
    /\ egc.exc = "AssertionError"

(* =================== EstimatorGraphGLM._set_out_var ==================== *)
\* param_bounds(dtype)[0]: the lower bounds of a_var and b_var (abstract in
\* this class; any two values below the coefficients of the model)
param_bounds_min(dt) == [a_var |-> 0 - 7, b_var |-> 0 - 5]

\* tf.broadcast_to(x, [r, c]) of a vector with one entry per feature
tf_broadcast_to(x, r, c) == [k \in 1..r |-> [f \in 1..c |-> x[f]]]

\* tf.broadcast_to(x, [r, c]) of a scalar
tf_broadcast_scalar(x, r, c, dt) == Tensor(r, c, dt, [k \in 1..r |-> [f \in 1..c |-> x]])

\* faulty variant: the two alternatives are exchanged
tf_where_swapped(cond, x, y) ==
    Tensor(x.rows, x.cols, x.dtype,
           [k \in 1..x.rows |-> [f \in 1..x.cols |->
               IF cond[k][f] THEN y.val[k][f] ELSE x.val[k][f]]])

\* tf.where(cond, x, y), entry by entry
tf_where(cond, x, y) ==
    Tensor(x.rows, x.cols, x.dtype,
           [k \in 1..x.rows |-> [f \in 1..x.cols |->
               IF cond[k][f] THEN x.val[k][f] ELSE y.val[k][f]]])

\* lines 696-724: the attributes a_var and b_var
set_out_var(model_vars, feature_isnonzero, dt) ==
    [a_var |-> tf_where(tf_broadcast_to(feature_isnonzero, NLocParams, NFeatures),
                        model_vars.a_var,
                        tf_broadcast_scalar(param_bounds_min(dt).a_var,
                                            NLocParams, NFeatures, dt)),
     b_var |-> tf_where(tf_broadcast_to(feature_isnonzero, NScaleParams, NFeatures),
                        model_vars.b_var,
                        tf_broadcast_scalar(param_bounds_min(dt).b_var,
                                            NScaleParams, NFeatures, dt))]

\* model_vars with coefficients that differ between rows, features and models
OutModelVars(sa, sb, dt) ==
    [a_var |-> Tensor(NLocParams, NFeatures, dt,
                      [k \in 1..NLocParams |-> [f \in 1..NFeatures |-> sa + k + 2 * f]]),
     b_var |-> Tensor(NScaleParams, NFeatures, dt,
                      [k \in 1..NScaleParams |-> [f \in 1..NFeatures |-> sb + k + f]])]

InitOut ==
    /\ GraphIdle
    /\ constr = [pc |-> "idle"]
    /\ ipar = [pc |-> "idle"]
    /\ jac = [pc |-> "idle"]
    /\ \E feature_isnonzero \in [1..NFeatures -> BOOLEAN], dt \in DTypes,
          sa \in 1..NSeeds, sb \in 1..NSeeds :
          egc = [pc |-> "out_call",
                 in |-> [feature_isnonzero |-> feature_isnonzero, dtype |-> dt,
                         model_vars |-> OutModelVars(sa, sb, dt)],
                 model_vars |-> OutModelVars(sa, sb, dt),
                 a_var |-> NoneT, b_var |-> NoneT]

\* one call of _set_out_var
SetOutVar ==
    /\ egc.pc = "out_call"
    /\ \E r \in {set_out_var(egc.model_vars, egc.in.feature_isnonzero, egc.in.dtype)} :
          egc' = [egc EXCEPT !.pc = "out_set", !.a_var = r.a_var, !.b_var = r.b_var]
    /\ UNCHANGED <<gvars, constr, ipar, jac>>

NextOut == SetOutVar

SpecOut == InitOut /\ [][NextOut]_vars

(* ======================= claims on _set_out_var ======================== *)
C28_Column(out, var, bound, f) ==
    \A k \in 1..var.rows :
        out.val[k][f] = IF egc.in.feature_isnonzero[f] THEN var.val[k][f] ELSE bound

\* C28: after _set_out_var the output a_var and b_var hold, for a feature
\* flagged non-zero, the column of model_vars, and for a feature flagged
\* all-zero the lower parameter bound in every entry; model_vars.a_var and
\* model_vars.b_var are what they were before the call.
C28_OnlyAllZeroFeaturesOverridden ==
    (egc.pc = "out_set") =>
        /\ IsTensor(egc.a_var) /\ IsTensor(egc.b_var)
        /\ egc.a_var.rows = NLocParams /\ egc.b_var.rows = NScaleParams
        /\ \A f \in 1..NFeatures :
              /\ C28_Column(egc.a_var, egc.in.model_vars.a_var,
                            param_bounds_min(egc.in.dtype).a_var, f)
              /\ C28_Column(egc.b_var, egc.in.model_vars.b_var,
                            param_bounds_min(egc.in.dtype).b_var, f)
        /\ egc.model_vars = egc.in.model_vars

\* one feature all-zero and overridden, another one kept
C28_Witness ==
    /\ egc.pc = "out_set"
    /\ \E f, g \in 1..NFeatures :
          /\ ~egc.in.feature_isnonzero[f] /\ egc.in.feature_isnonzero[g]
          /\ egc.a_var.val[1][f] = param_bounds_min(egc.in.dtype).a_var
          /\ egc.a_var.val[1][f] # egc.model_vars.a_var.val[1][f]
          /\ egc.b_var.val[1][g] = egc.model_vars.b_var.val[1][g]

(* ============ sgdglm nb Estimator.mu / Estimator.r (nb/estimator.py) === *)
\* x.expand_dims(dim="observations", axis=0)
expand_dims(x) == <<x>>

\* np.repeat(v, n)
np_repeat(v, n) == [o \in 1..n |-> v]

\* x.isel(observations=idx), idx counting from 0
isel(x, idx) == [o \in 1..Len(idx) |-> x[idx[o] + 1]]

\* lines 164-168
Estimator_mu(self) == isel(expand_dims(self.mu_raw), np_repeat(0, self.num_observations))

\* lines 170-174: the property reads self.mu_raw
Estimator_r(self) == isel(expand_dims(self.mu_raw), np_repeat(0, self.num_observations))

\* a fitted estimator: one mean and one dispersion per feature
InitNb ==
    /\ GraphIdle
    /\ constr = [pc |-> "idle"]
    /\ jac = [pc |-> "idle"]
    /\ egc = [pc |-> "idle"]
    /\ \E mu_raw \in [1..NFeatures -> 1..MaxRaw], r_raw \in [1..NFeatures -> 1..MaxRaw],
          n \in 1..NObservations :
          ipar = [pc |-> "fitted", mu_raw |-> mu_raw, r_raw |-> r_raw,
                  num_observations |-> n, property |-> "none", value |-> <<>>]

\* a read of the property mu
ReadMu ==
    /\ ipar.pc = "fitted"
    /\ ipar' = [ipar EXCEPT !.pc = "read", !.property = "mu", !.value = Estimator_mu(ipar)]
    /\ UNCHANGED <<gvars, constr, jac, egc>>

\* a read of the property r
ReadR ==
    /\ ipar.pc = "fitted"
    /\ ipar' = [ipar EXCEPT !.pc = "read", !.property = "r", !.value = Estimator_r(ipar)]
    /\ UNCHANGED <<gvars, constr, jac, egc>>

NextNb == ReadMu \/ ReadR

SpecNb == InitNb /\ [][NextNb]_vars

(* ================== claims on Estimator.mu / Estimator.r =============== *)
C29_Repeated(value, raw) ==
    /\ Len(value) = ipar.num_observations
    /\ \A o \in 1..Len(value) : value[o] = raw

\* C29: Estimator.mu is mu_raw repeated along the observations and
\* Estimator.r is r_raw repeated along the observations.
C29_RIsDispersionRepeated ==
    (ipar.pc = "read") =>
        /\ ipar.property = "mu" => C29_Repeated(ipar.value, ipar.mu_raw)
        /\ ipar.property = "r" => C29_Repeated(ipar.value, ipar.r_raw)

(* ========== glm_norm Jacobians._weights_jac_a (glm_norm/jacobians.py) === *)
(* The method works entry by entry on X, loc and scale; one entry is       *)
(* modelled.  Values are exact fractions num / den with den > 0.           *)
Rat(n, d) == [num |-> n, den |-> d]
RatEq(x, y) == x.num * y.den = y.num * x.den

\* tf.divide(x, y), tf.multiply(x, q), tf.subtract(x, q) / tf.sparse.add(x, -q)
tf_divide(x, y) == Rat(x, y)
tf_multiply(x, q) == Rat(x * q.num, q.den)
tf_subtract(x, q) == Rat(x * q.den - q.num, q.den)

\* lines 18-26: X is a tf.SparseTensor holding the entry
weights_jac_a_sparse(X, loc, scale) ==
    tf_subtract(X, tf_multiply(X + scale, tf_divide(loc, loc + scale)))

\* lines 27-35: X is a dense tensor
weights_jac_a_dense(X, loc, scale) ==
    tf_subtract(X, tf_multiply(X + scale, tf_divide(scale, loc + scale)))

\* no value computed yet
NoWeight == Rat(0, 0)

InitWeights ==
    /\ GraphIdle
    /\ constr = [pc |-> "idle"]
    /\ ipar = [pc |-> "idle"]
    /\ egc = [pc |-> "idle"]
    /\ \E X \in 0..MaxX, loc \in 1..MaxLoc, scale \in 1..MaxLoc :
          jac = [pc |-> "weights", in |-> [X |-> X, loc |-> loc, scale |-> scale],
                 sparse |-> NoWeight, dense |-> NoWeight]

\* _weights_jac_a on the entry held in a sparse tensor
WeightsJacASparse ==
    /\ jac.pc = "weights"
    /\ jac.sparse = NoWeight
    /\ jac' = [jac EXCEPT !.sparse = weights_jac_a_sparse(jac.in.X, jac.in.loc, jac.in.scale)]
    /\ UNCHANGED <<gvars, constr, ipar, egc>>

\* _weights_jac_a on the same entry held in a dense tensor
WeightsJacADense ==
    /\ jac.pc = "weights"
    /\ jac.dense = NoWeight
    /\ jac' = [jac EXCEPT !.dense = weights_jac_a_dense(jac.in.X, jac.in.loc, jac.in.scale)]
    /\ UNCHANGED <<gvars, constr, ipar, egc>>

NextWeights == WeightsJacASparse \/ WeightsJacADense

SpecWeights == InitWeights /\ [][NextWeights]_vars

(* ===================== claims on _weights_jac_a ======================== *)
\* C24: for the same entry of X and the same loc and scale, the sparse and
\* the dense branch of _weights_jac_a return the same weight.
C24_SparseEqualsDense ==
    (jac.pc = "weights" /\ jac.sparse # NoWeight /\ jac.dense # NoWeight) =>
        RatEq(jac.sparse, jac.dense)

====
